---- MODULE Spec2Model ----
(***************************************************************************)
(* Command resolution and dispatch of ncatbot's UnifiedRegistryPlugin      *)
(* (plugin_system/builtin_plugin/unified_registry/plugin.py).              *)
(*                                                                         *)
(* Text is a sequence of one-character strings, a word is a sequence of    *)
(* characters, a path is a sequence of words.  The registry, the           *)
(* preprocessor, the tokenizer, the resolver, the binder and the filter    *)
(* validator are collaborators of plugin.py; they are modelled from their  *)
(* contracts, the orchestration is modelled from plugin.py.                *)
(***************************************************************************)
EXTENDS Integers, Sequences, FiniteSets, TLC

\* ------------------------------------------------------------------ bounds
\* most words that follow the leading words of an injected message
MaxArgs == 1

\* --------------------------------------------------------- text primitives
SPACE == " "

QUOTE == "\""

W_a == <<"a">>

W_b == <<"b">>

W_ba == <<"b", "a">>

W_42 == <<"4", "2">>

P_slash == <<"/">>

P_bang == <<"!">>

P_bang2 == <<"!", "!">>

P_none == <<>>

\* str.startswith
StartsWith(s, p) ==
    /\ Len(p) <= Len(s)
    /\ SubSeq(s, 1, Len(p)) = p

\* str.endswith
EndsWith(s, p) ==
    /\ Len(p) <= Len(s)
    /\ SubSeq(s, Len(s) - Len(p) + 1, Len(s)) = p

\* text.split(" ")[0]: the characters before the first space
RECURSIVE FirstWord(_)
FirstWord(text) ==
    IF text = <<>> \/ Head(text) = SPACE THEN <<>>
    ELSE <<Head(text)>> \o FirstWord(Tail(text))

\* str.lower on one character and on a word
LowerChar(c) ==
    CASE c = "A" -> "a"
      [] c = "B" -> "b"
      [] OTHER -> c

LowerWord(w) == [i \in 1..Len(w) |-> LowerChar(w[i])]

NormalizePath(path) == [i \in 1..Len(path) |-> LowerWord(path[i])]

\* UnifiedRegistryPlugin._normalize_case: case folding is not implemented
NormalizeCase(s) == s

Digits == {"0", "1", "2", "3", "4", "5", "6", "7", "8", "9"}

DigitVal(c) ==
    CASE c = "0" -> 0 [] c = "1" -> 1 [] c = "2" -> 2 [] c = "3" -> 3
      [] c = "4" -> 4 [] c = "5" -> 5 [] c = "6" -> 6 [] c = "7" -> 7
      [] c = "8" -> 8 [] c = "9" -> 9

IsIntLiteral(w) == Len(w) > 0 /\ \A i \in 1..Len(w) : w[i] \in Digits

RECURSIVE ParseInt(_)
ParseInt(w) ==
    IF w = <<>> THEN 0
    ELSE 10 * ParseInt(SubSeq(w, 1, Len(w) - 1)) + DigitVal(w[Len(w)])

\* ---------------------------------------------------------------- lexer
\* StringTokenizer.tokenize: splits on whitespace outside quotes; a quoted
\* span is one word holding the unquoted content; an unmatched quote ends
\* the word it is in.  scan(rest, cur, inWord, inQuote) carries the word
\* being built.
RECURSIVE TokScan(_, _, _, _)
TokScan(rest, cur, inWord, inQuote) ==
    IF rest = <<>> THEN (IF inWord THEN <<cur>> ELSE <<>>)
    ELSE LET c == Head(rest)
             r == Tail(rest)
         IN  IF inQuote THEN
                 IF c = QUOTE THEN <<cur>> \o TokScan(r, <<>>, FALSE, FALSE)
                 ELSE TokScan(r, Append(cur, c), TRUE, TRUE)
             ELSE IF c = QUOTE THEN
                 (IF inWord THEN <<cur>> ELSE <<>>) \o TokScan(r, <<>>, TRUE, TRUE)
             ELSE IF c = SPACE THEN
                 (IF inWord THEN <<cur>> ELSE <<>>) \o TokScan(r, <<>>, FALSE, FALSE)
             ELSE TokScan(r, Append(cur, c), TRUE, FALSE)

Tokenize(text) == TokScan(text, <<>>, FALSE, FALSE)

\* ------------------------------------------------- handler functions
\* The decorated functions of the plugins.  f_* are command handlers
\* (__is_command__ set by the command decorator), g_* are pure filter
\* functions.  A function with filter decorators carries __filters__ and is
\* entered in filter_registry._function_filters, command or not.
Funcs == {"f_a", "f_ab", "f_b", "g_p", "g_q"}

PluginNames == {"P", "Q"}

\* getattr(func, "__is_command__", False)
IsCommandFunc(f) == f \in {"f_a", "f_ab", "f_b"}

\* hasattr(func, "__filters__")
HasFilters(f) == f \in {"f_ab", "f_b", "g_p", "g_q"}

\* func.__filters__: the predicates attached to the function
FiltersOf(f) ==
    CASE f = "f_ab" -> {"admin"}
      [] f = "f_b" -> {"group", "admin"}
      [] f = "g_p" -> {"group"}
      [] f = "g_q" -> {"admin"}
      [] OTHER -> {}

\* asyncio.iscoroutinefunction(func)
IsCoroutineFunc(f) == f \in {"f_a", "g_p", "f_b"}

\* the plugin that registered the function (the registries' record of it)
OwnerOf(f) == IF f \in {"f_a", "f_ab", "g_p"} THEN "P" ELSE "Q"

\* the plugin class whose __dict__ holds the function; "None" for a
\* function defined at module level
ClassOf(f) == IF f = "f_ab" THEN "P" ELSE "None"

\* the versions of its source a plugin can be loaded from
Variants(p) == IF p = "P" THEN {1} ELSE {1, 2, 3}

IntParam(req, dflt) == [name |-> "n", type |-> "int", required |-> req, default |-> dflt]

SpecA ==
    [name |-> "a", path_words |-> <<W_a>>, prefixes |-> {P_slash, P_none},
     func |-> "f_a", owner |-> "P", params |-> <<>>, aliases |-> {}]

SpecAB ==
    [name |-> "ab", path_words |-> <<W_a, W_b>>, prefixes |-> {P_slash, P_bang},
     func |-> "f_ab", owner |-> "P", params |-> <<IntParam(TRUE, 0)>>, aliases |-> {}]

SpecB(prefs, als) ==
    [name |-> "b", path_words |-> <<W_b>>, prefixes |-> prefs,
     func |-> "f_b", owner |-> "Q", params |-> <<IntParam(FALSE, 1)>>, aliases |-> als]

\* the command specs a plugin version registers when it is imported:
\* Q version 2 declares "!!" (contained by P's "!"), Q version 3 declares an
\* alias that is the path of P's command a
SpecsOf(p, v) ==
    CASE p = "P" -> {SpecA, SpecAB}
      [] p = "Q" /\ v = 1 -> {SpecB({P_bang}, {<<W_b, W_a>>})}
      [] p = "Q" /\ v = 2 -> {SpecB({P_bang2}, {})}
      [] p = "Q" /\ v = 3 -> {SpecB({P_slash}, {<<W_a>>})}

\* the functions a plugin enters in filter_registry, in decoration order
FilterFuncsOf(p) == IF p = "P" THEN <<"f_ab", "g_p">> ELSE <<"g_q", "f_b">>

\* ------------------------------------------------------ command registry
EmptyMap == [x \in {} |-> 0]

MapRestrict(m, keys) == [x \in keys |-> m[x]]

Range(f) == {f[x] : x \in DOMAIN f}

\* register: a path already registered by another plugin is refused
DuplicatePath(cmds, als, spec) ==
    \/ /\ spec.path_words \in DOMAIN cmds
       /\ cmds[spec.path_words].owner # spec.owner
    \/ \E a \in spec.aliases : a \in DOMAIN als /\ als[a].owner # spec.owner

\* register the specs of a set; same-plugin re-registration replaces
RegisterCommands(cmds, specs) ==
    [p \in (DOMAIN cmds) \cup {s.path_words : s \in specs} |->
        IF \E s \in specs : s.path_words = p
        THEN CHOOSE s \in specs : s.path_words = p
        ELSE cmds[p]]

RegisterAliases(als, specs) ==
    [p \in (DOMAIN als) \cup UNION {s.aliases : s \in specs} |->
        IF \E s \in specs : p \in s.aliases
        THEN CHOOSE s \in specs : p \in s.aliases
        ELSE als[p]]

\* revoke_plugin: drops every entry owned by the plugin
RevokePlugin(m, name) == MapRestrict(m, {p \in DOMAIN m : m[p].owner # name})

\* filter_registry.revoke_plugin
RevokeFilters(fs, name) == SelectSeq(fs, LAMBDA f : OwnerOf(f) # name)

\* ---------------------------------------------------------- preprocessor
NoResult == [none |-> TRUE]

\* MessagePreprocessor.precheck with require_prefix = False: None when the
\* first segment is not text or is empty
Precheck(ev) ==
    IF ~ev.hasText \/ ev.text = <<>> THEN NoResult
    ELSE [command_text |-> ev.text]

\* ------------------------------------------------------------- resolver
\* the entries build_index inserts: (normalized path, spec)
IndexEntries(cmds, als) ==
    {<<NormalizePath(p), cmds[p]>> : p \in DOMAIN cmds}
        \cup {<<NormalizePath(p), als[p]>> : p \in DOMAIN als}

\* two entries that would occupy the same normalized path
EntriesConflict(e1, e2) == e1 # e2 /\ e1[1] = e2[1]

PathConflict(cmds, als) ==
    \E e1, e2 \in IndexEntries(cmds, als) : EntriesConflict(e1, e2)

IndexOf(entries) ==
    [p \in {e[1] : e \in entries} |-> (CHOOSE e \in entries : e[1] = p)[2]]

\* build_index without conflict: every command and alias path
BuildIndex(cmds, als) == IndexOf(IndexEntries(cmds, als))

\* what build_index can leave behind when it raises: the entries inserted
\* before the one that conflicts, in any insertion order
PartialIndexes(cmds, als) ==
    LET all == IndexEntries(cmds, als)
    IN  {IndexOf(S) : S \in {T \in SUBSET all :
            /\ \A e1, e2 \in T : ~EntriesConflict(e1, e2)
            /\ \E e \in all \ T : \E t \in T : e[1] = t[1]}}

\* the message prefix the first token starts with ("" when none)
RECURSIVE LongestPrefix(_, _)
LongestPrefix(word, prefs) ==
    IF prefs = {} THEN P_none
    ELSE LET p == CHOOSE q \in prefs : \A r \in prefs : Len(r) <= Len(q)
         IN  IF StartsWith(word, p) THEN p
             ELSE LongestPrefix(word, prefs \ {p})

\* the words of a token stream once the prefix is taken off the first token
CommandWords(tokens, prefix) ==
    [i \in 1..Len(tokens) |->
        LowerWord(IF i = 1 THEN SubSeq(tokens[1], Len(prefix) + 1, Len(tokens[1]))
                  ELSE tokens[i])]

\* resolve_from_tokens: the deepest path of the index along the tokens
ResolveFromTokens(tokens, index, prefs) ==
    IF tokens = <<>> THEN [prefix |-> P_none, match |-> NoResult]
    ELSE LET prefix == LongestPrefix(tokens[1], prefs)
             words == CommandWords(tokens, prefix)
             depths == {k \in 1..Len(words) : SubSeq(words, 1, k) \in DOMAIN index}
         IN  IF depths = {} THEN [prefix |-> prefix, match |-> NoResult]
             ELSE LET k == CHOOSE d \in depths : \A e \in depths : e <= d
                  IN  [prefix |-> prefix,
                       match |-> [command |-> index[SubSeq(words, 1, k)],
                                  path_words |-> SubSeq(words, 1, k)]]

\* get_commands: the specs of the index
GetCommands(index) == Range(index)

\* --------------------------------------------------------------- binder
Coerce(type, tok) ==
    IF type = "int"
    THEN (IF IsIntLiteral(tok) THEN [ok |-> TRUE, value |-> ParseInt(tok)]
          ELSE [ok |-> FALSE, value |-> 0])
    ELSE [ok |-> TRUE, value |-> tok]

\* ArgumentBinder.bind: the tokens after the words of the matched path are
\* bound to the parameters in declaration order; BindError when a required
\* parameter has no token or a token cannot be coerced
Bind(command, ev, ignore_words) ==
    LET tokens == Tokenize(ev.text)
        rest == SubSeq(tokens, Len(ignore_words) + 1, Len(tokens))
        params == command.params
        bound == [i \in 1..Len(params) |->
                    IF i <= Len(rest) THEN Coerce(params[i].type, rest[i])
                    ELSE IF params[i].required THEN [ok |-> FALSE, value |-> 0]
                    ELSE [ok |-> TRUE, value |-> params[i].default]]
    IN  IF \A i \in 1..Len(params) : bound[i].ok
        THEN [ok |-> TRUE, args |-> [i \in 1..Len(params) |-> bound[i].value],
              msg |-> ""]
        ELSE [ok |-> FALSE, args |-> <<>>,
              msg |-> IF \E i \in 1..Len(params) : i > Len(rest) /\ ~bound[i].ok
                      THEN "missing required parameter"
                      ELSE "cannot convert parameter"]

\* ----------------------------------------------------- filter validator
Predicate(name, ev) ==
    CASE name = "admin" -> ev.admin
      [] name = "group" -> ev.group
      [] OTHER -> TRUE

\* FilterValidator.validate_filters: every attached predicate accepts
ValidateFilters(f, ev) == \A name \in FiltersOf(f) : Predicate(name, ev)

\* ------------------------------------------------------------ the state
VARIABLES
    pluginState,      \* per plugin: "unloaded", "registered" (imported, its
                      \* decorators ran), "loaded" (load notification handled)
    pluginVer,        \* per plugin: the version imported, 0 when unloaded
    commands,         \* command_registry.get_all_commands(): path -> spec
    aliases,          \* command_registry.get_all_aliases(): path -> spec
    fnFilters,        \* filter_registry._function_filters, in insertion order
    initialized,      \* self._initialized
    resolver,         \* self._resolver: exists, prefixes, index, state
    func_plugin_map,  \* self.func_plugin_map: function -> plugin
    lastBuild,        \* the most recent index build: who ran it, and how it ended
    snap,             \* the resolver as the unload found it, kept while the
                      \* same plugin version is imported and loaded again
    last              \* the handler call that has just run and its effects

vars == <<pluginState, pluginVer, commands, aliases, fnFilters, initialized,
          resolver, func_plugin_map, lastBuild, snap, last>>

registryVars == <<pluginState, pluginVer, commands, aliases, fnFilters>>

\* ------------------------------------------------ MessageRouter: state
\* the send calls made on the router, each with its own uuid4 echo
MaxSends == 2

Sends == 1..MaxSends

\* the values the "echo" key of an inbound message can hold: null, the empty
\* string, the echo of a send, an echo no send has used
EchoNone == -1

EchoEmpty == 0

EchoOf(t) == t

EchoUnknown == MaxSends + 1

EchoValues == {EchoNone, EchoEmpty, EchoUnknown} \cup {EchoOf(t) : t \in Sends}

\* the truth value `if echo:` gives
Truthy(echo) == echo > 0

\* the messages the socket hands to _on_message: with an "echo" key, or
\* without one (data.get("echo") is then None)
NoData == [hasEcho |-> FALSE, echo |-> EchoNone]

InboundData == [hasEcho : {TRUE}, echo : EchoValues] \cup {NoData}

\* the event callbacks a client sets
Callbacks == {"cb"}

\* Queue(maxsize=1)
QueueMaxSize == 1

VARIABLES
    event_callback,   \* self._event_callback: "None" or a callback
    ws,               \* self._ws: exists, connected, the echoes transmitted,
                      \* whether on_close is suspended in its disconnect()
    pending,          \* self._pending: the echoes registered; the queue
                      \* registered under the echo of send t is queues[t]
    queues,           \* the Queue each send created
    sends,            \* per send: where it stands, and what it returned
    loop,             \* the event loop: running, or blocked inside queue.put
    routed            \* the _on_message call that ran last and its effects

routerVars == <<event_callback, ws, pending, queues, sends, loop, routed>>

\* --------------------------------- dispatch calls in flight: state
\* the handle_message_event calls the event bus has started and that can be
\* suspended at the same time
MaxTasks == 2

Tasks == 1..MaxTasks

VARIABLES
    tasks             \* per handle_message_event call: where it is suspended,
                      \* the iterator of its pure-filter loop, and the pure
                      \* filter functions registered when it started that
                      \* accept its event and have not been invoked yet,
                      \* whether a load or unload notification was handled
                      \* while it was suspended

flightVars == <<tasks>>

\* ------------------------------------------- ConfigPersistence: state
\* the save tasks atomic_save_item schedules on the event loop
MaxSaves == 2

Saves == 1..MaxSaves

\* the config items of the plugin and the values they are set to
Items == {"test_string", "reload_count"}

MaxValue == 2

ItemValues == 1..MaxValue

\* an item that is not in a document
Absent == 0

\* an item of another plugin's section, and a top-level key of the file
\* other than plugin_config
OtherPluginItem == "other_plugin.item"

TopLevelKey == "napcat"

\* the entries of the plugin_config section, and of the whole file
PluginConfigEntries == Items \cup {OtherPluginItem}

Entries == PluginConfigEntries \cup {TopLevelKey}

\* a YAML document: what each entry holds
Documents == [Entries -> ItemValues \cup {Absent}]

EmptyDocument == [i \in Entries |-> Absent]

\* the file the program starts with: the other plugin's item and the
\* top-level key are set, the plugin has saved nothing yet
StartDocument ==
    [i \in Entries |-> IF i \in Items THEN Absent ELSE 1]

\* what a file holds: a complete document, nothing (opened for writing and
\* not yet written), or the bytes of two writes on top of each other
DocContent(doc) == [kind |-> "doc", doc |-> doc]

EmptyContent == [kind |-> "empty", doc |-> EmptyDocument]

GarbledContent == [kind |-> "garbled", doc |-> EmptyDocument]

\* the files on disk: a path names a file or nothing
NoFile == 0

Files == 1..(MaxSaves + 1)

VARIABLES
    configs,          \* the configs dict in memory: the value of each entry
                      \* of the plugin_config section
    config_path,      \* the file self._config_path names
    tmp_path,         \* the file self._config_path.with_suffix('.tmp') names
    disk,             \* what each file holds
    saves             \* per save task: where it stands, its item, the
                      \* document it is about to write, the file it has open

configVars == <<configs, config_path, tmp_path, disk, saves>>

\* ------------------------------------------- MockMessageRouter: state
\* the calls kept in the history
MaxCalls == 3

\* the action names callers pass: up to two leading slashes before a name;
\* "get_login_info" is in the table of default responses, "a/b" is not and
\* has a slash inside
ActionNames == {"get_login_info", "a/b"}

ActionInputs == [lead : 0..2, name : ActionNames]

\* the params callers pass: None, or a dict of the caller with no or one item
NoParams == [obj |-> "None", items |-> 0]

ParamInputs == {NoParams} \cup [obj : {"caller"}, items : 0..1]

\* the responses set_api_response is given: dicts of the caller
NoResponse == [obj |-> "None", from |-> "none", id |-> 0]

ResponseInputs == [obj : {"caller"}, from : {"configured"}, id : 1..2]

VARIABLES
    call_history,     \* self._call_history
    api_responses,    \* self._api_responses: action name -> response
    mock_last         \* the send that ran last and what it returned

mockVars == <<call_history, api_responses, mock_last>>

\* ------------------------------------------------ ServiceManager: state
\* the calls of load, unload, load_all and close_all that can be suspended
\* at the same time
MaxCallers == 2

Callers == 1..MaxCallers

\* the service instances load creates
MaxInstances == 2

Instances == 1..MaxInstances

\* the _close calls counted per instance
MaxCloses == 2

\* the names in self._service_classes, and a name that was never registered
RegisteredNames == {"message_router", "preupload"}

UnregisteredName == "unknown"

ServiceNames == RegisteredNames \cup {UnregisteredName}

\* the order `for name in self._service_classes` visits the names in
RegistrationOrder == <<"message_router", "preupload">>

VARIABLES
    services,         \* self._services in insertion order: <<name, instance>>
    instances,        \* per instance created: its name, how far its _load
                      \* and _close got, how many times _close was called
    created,          \* the number of instances created so far
    mgr_calls             \* per caller: the manager call it is in, the names
                      \* still to visit, where it is suspended, its result

managerVars == <<services, instances, created, mgr_calls>>

\* ---- WebSocketService (core/service/builtin/websocket.py)

\* connections websockets.connect can hand out: the one of on_load and the
\* ones of _reconnect
MaxConns == 2

Conns == 1..MaxConns

\* messages the peer sends while the model runs
MaxMessages == 2

\* self._client is None
NoClient == 0

VARIABLES
    running,          \* self._running
    client,           \* self._client: a connection, or NoClient
    ws_callback,      \* self._event_callback is set
    listen_task,      \* self._listen_task is set
    conns,            \* per connection: not made, open, closed by a normal
                      \* close (the iterator ends), closed with an error
                      \* (the iterator raises ConnectionClosedError)
    listen,           \* the one call of listen: where it is suspended, the
                      \* connection its async for iterates, how it ended
    cancel_requested, \* on_close has called self._listen_task.cancel()
    closer,           \* the call of on_close: where it is suspended
    attempted,        \* connections after whose loss _reconnect was called
    ws_log            \* the messages listen took from the iterator

socketVars == <<running, client, ws_callback, listen_task, conns, listen,
                cancel_requested, closer, attempted, ws_log>>

NoListen == [pc |-> "none", conn |-> NoClient, result |-> "none",
             respun |-> FALSE]

NoClose == [pc |-> "idle", result |-> "none", conn |-> NoClient]

\* WebSocketService.__init__: no client, not running, no listen task; the
\* event callback is the constructor's argument
SocketInit ==
    /\ running = FALSE
    /\ client = NoClient
    /\ ws_callback \in BOOLEAN
    /\ listen_task = FALSE
    /\ conns = [c \in Conns |-> "none"]
    /\ listen = NoListen
    /\ cancel_requested = FALSE
    /\ closer = NoClose
    /\ attempted = {}
    /\ ws_log = <<>>

\* ---- handle_legacy_event (unified_registry/plugin.py)

\* the functions found in legacy_registry._notice_event and
\* legacy_registry._request_event
LegacyHandlers == {"f_a", "g_p", "g_q"}

\* the length of each of the two lists
MaxHandlers == 2

\* the lists the registry can hold: handlers in registration order
HandlerLists ==
    {<<>>} \cup {<<f>> : f \in LegacyHandlers}
           \cup {fg \in LegacyHandlers \X LegacyHandlers : fg[1] # fg[2]}

\* the events the bus hands to handle_legacy_event, and one of another
\* post_type
LegacyEvents ==
    [post_type : {"notice", "request", "meta_event"}, admin : BOOLEAN,
     group : BOOLEAN, raisers : {{}, {"f_a"}, {"g_p", "g_q"}}]

VARIABLES
    legacy_last       \* the last call of handle_legacy_event: the event, the
                      \* two lists, the handlers tried and called, the result

legacyVars == <<legacy_last>>

NoLegacyCall ==
    [op |-> "none", ev |-> [post_type |-> "none", admin |-> FALSE,
                            group |-> FALSE, raisers |-> {}],
     notice |-> <<>>, request |-> <<>>, calls |-> <<>>, logged |-> <<>>,
     tried |-> {}, raised |-> "none", returned |-> "none"]

LegacyInit == legacy_last = NoLegacyCall

runtimeVars == <<managerVars, socketVars, legacyVars>>

serviceVars == <<configVars, mockVars, runtimeVars>>

NoInstance == 0

NotCreated == [name |-> "none", state |-> "none", closes |-> 0]

NoCall == [op |-> "none", todo |-> <<>>, pc |-> "idle", name |-> "none",
           inst |-> NoInstance, result |-> "none", found |-> <<>>]

\* ServiceManager.__init__ followed by the registrations: nothing loaded
ManagerInit ==
    /\ services = <<>>
    /\ instances = [i \in Instances |-> NotCreated]
    /\ created = 0
    /\ mgr_calls = [c \in Callers |-> NoCall]

NoMockCall == [op |-> "none", action |-> [lead |-> 0, name |-> "a/b"],
               params |-> NoParams, returned |-> NoResponse]

\* MockMessageRouter(): no history, no configured response
MockInit ==
    /\ call_history = <<>>
    /\ api_responses = [a \in ActionNames |-> NoResponse]
    /\ mock_last = NoMockCall

NoSave == [pc |-> "idle", kind |-> "none", name |-> "none", deleted |-> FALSE,
           data |-> EmptyDocument, fd |-> NoFile, error |-> "none"]

\* the config file as the program finds it, memory as loaded from it,
\* nothing being saved
ConfigInit ==
    /\ configs = [i \in PluginConfigEntries |-> StartDocument[i]]
    /\ config_path = 1
    /\ tmp_path = NoFile
    /\ disk = [f \in Files |-> IF f = 1 THEN DocContent(StartDocument)
                                ELSE EmptyContent]
    /\ saves = [t \in Saves |-> NoSave]


NoWs == [exists |-> FALSE, connected |-> FALSE, sent |-> {}, closing |-> FALSE]

NoRouted ==
    [op |-> "none", data |-> NoData, route |-> "none", callback |-> "None",
     callback_calls |-> 0, passed |-> NoData, raised |-> "none",
     returned |-> FALSE, queues_changed |-> FALSE]

\* MessageRouter(): no callback, no socket, nothing pending
RouterInit ==
    /\ event_callback = "None"
    /\ ws = NoWs
    /\ pending = {}
    /\ queues = [t \in Sends |-> <<>>]
    /\ sends = [t \in Sends |-> [pc |-> "idle", result |-> "none", response |-> NoData]]
    /\ loop = [state |-> "running", data |-> NoData]
    /\ routed = NoRouted

\* --------------------------------------------------------------- events
NoEvent == [hasText |-> FALSE, text |-> <<>>, admin |-> FALSE, group |-> FALSE,
            raisers |-> {}]

TextPrefixes == {P_none, P_slash, P_bang}

\* the leading words of the injected messages
HeadWords == {<<>>, <<W_a>>, <<W_b>>, <<W_a, W_b>>, <<W_b, W_a>>, <<W_ba>>}

\* the words that follow them: numbers, the last one possibly not a number
ArgPool == {W_42, W_b}

RECURSIVE WordSeqs(_)
WordSeqs(n) ==
    IF n = 0 THEN {<<>>}
    ELSE LET shorter == WordSeqs(n - 1)
             numbers == {x \in shorter : Len(x) = n - 1 /\ \A i \in DOMAIN x : x[i] = W_42}
         IN  shorter \cup {Append(xs, w) : xs \in numbers, w \in ArgPool}

RECURSIVE Join(_)
Join(xs) ==
    IF xs = <<>> THEN <<>>
    ELSE IF Len(xs) = 1 THEN xs[1]
    ELSE xs[1] \o <<SPACE>> \o Join(Tail(xs))

\* the message texts injected: a prefix, leading words, up to MaxArgs more
\* a command word written between quotes: "a"
QuotedTexts == {<<QUOTE>> \o W_a \o <<QUOTE>>}

Texts == {pre \o Join(h \o t) : pre \in TextPrefixes, h \in HeadWords,
                                t \in WordSeqs(MaxArgs)} \cup QuotedTexts

\* the sets of handlers that raise on one event
RaiserSets == {{}, {"f_ab", "f_b", "g_p"}}

\* the message events delivered to handle_message_event: a text first
\* segment or none, sent by an admin or not, in a group or in private
MessageEvents ==
    [hasText : {TRUE}, text : Texts, admin : BOOLEAN, group : BOOLEAN,
     raisers : RaiserSets]
    \cup [hasText : {FALSE}, text : {<<>>}, admin : BOOLEAN, group : BOOLEAN,
          raisers : RaiserSets]

\* ------------------------------------------------- orchestrator helpers
\* list_plugins(obj=True): the plugins the loader holds
LivePlugins(ps) == {p \in PluginNames : ps[p] # "unloaded"}

\* _find_plugin_for_function: the cached plugin, else the live plugin whose
\* class holds the function, else None
FindPluginForFunction(f, cache, ps) ==
    IF f \in DOMAIN cache THEN cache[f]
    ELSE IF ClassOf(f) \in LivePlugins(ps) THEN ClassOf(f)
    ELSE "None"

\* the cache after _find_plugin_for_function ran for each function of fs
CacheAfter(fs, cache, ps) ==
    [f \in (DOMAIN cache) \cup {g \in fs : ClassOf(g) \in LivePlugins(ps)} |->
        IF f \in DOMAIN cache THEN cache[f] ELSE ClassOf(f)]

\* mutant: the gate lets a function through when any one predicate accepts
FiltersAccept_Any(f, ev) ==
    ~HasFilters(f) \/ \E name \in FiltersOf(f) : Predicate(name, ev)

\* the filter gate of _execute_function
FiltersAccept(f, ev) == ~HasFilters(f) \/ ValidateFilters(f, ev)

\* mutant: _execute_function without its except clause
CatchInExecute_Escapes(f, call) ==
    [result |-> "raised", calls |-> <<call>>, logged |-> <<>>,
     published |-> <<>>, escaped |-> "Exception"]

\* mutant: the except clause swallows the error without logging it
CatchInExecute_Silent(f, call) ==
    [result |-> "raised", calls |-> <<call>>, logged |-> <<>>,
     published |-> <<>>, escaped |-> "none"]

\* the except clause of _execute_function: the error is logged and False is
\* returned, nothing escapes
CatchInExecute(f, call) ==
    [result |-> "raised", calls |-> <<call>>, logged |-> <<f>>,
     published |-> <<>>, escaped |-> "none"]

\* mutant: a synchronous handler is called on the event loop itself
HowToRun_OnLoop(f) == IF IsCoroutineFunc(f) THEN "await" ELSE "call"

\* how _execute_function runs the function: a coroutine function is awaited
\* in the dispatching task, any other is handed to asyncio.to_thread
HowToRun(f) == IF IsCoroutineFunc(f) THEN "await" ELSE "to_thread"

\* _execute_function: the filters gate the call; an asynchronous handler is
\* awaited, a synchronous one runs in a worker thread.  result: "rejected",
\* "ok" or "raised"
ExecuteFunction(f, ev, args, cache, ps) ==
    LET plugin == FindPluginForFunction(f, cache, ps)
        call == [func |-> f, self |-> plugin, args |-> args,
                 how |-> HowToRun(f)]
    IN  IF ~FiltersAccept(f, ev)
        THEN [result |-> "rejected", calls |-> <<>>, logged |-> <<>>,
              published |-> <<>>, escaped |-> "none"]
        ELSE IF f \in ev.raisers
        THEN CatchInExecute(f, call)
        ELSE [result |-> "ok", calls |-> <<call>>, logged |-> <<>>,
              published |-> <<>>, escaped |-> "none"]

NoRun(stage, prefix, match) ==
    [stage |-> stage, prefix |-> prefix, match |-> match, args |-> <<>>,
     calls |-> <<>>, published |-> <<>>, logged |-> <<>>, tried |-> {},
     bind_called |-> FALSE]

\* the first-word scan of _run_command
CheapHit(first_word, cmds) ==
    {c \in cmds : EndsWith(first_word, c.path_words[1])}

\* mutant: the matched prefix is not compared with the command's prefixes
PrefixAccepted_Always(prefix, command) == TRUE

\* the prefix confirmation of _run_command
PrefixAccepted(prefix, command) == prefix \in command.prefixes

\* mutant: only the first word of the matched path is skipped
IgnoreWords_First(match) == <<match.path_words[1]>>

\* ignore_words = match.path_words
IgnoreWords(match) == match.path_words

\* mutant: a bind failure is dropped without a notification
BindFailedEvents_None(ev, msg, name) == <<>>

\* the notification _run_command publishes when binding fails
BindFailedEvents(ev, msg, name) ==
    <<[type |-> "ncatbot.param_bind_failed", event |-> ev, msg |-> msg, cmd |-> name]>>

\* _run_command once _execute_function has returned x
RunCommandExecuted(x, b, r) ==
    [stage |-> x.result, prefix |-> r.prefix, match |-> r.match,
     args |-> b.args, calls |-> x.calls, published |-> x.published,
     logged |-> x.logged, tried |-> {r.match.command.func},
     bind_called |-> TRUE]

\* mutant: the handler is executed whether the binding failed or not
RunCommandBound_IgnoresFailure(b, r, ev, cache, ps) ==
    RunCommandExecuted(
        ExecuteFunction(r.match.command.func, ev, b.args, cache, ps), b, r)

\* _run_command from the outcome b of the binding on: a failure is
\* published, otherwise the handler is executed
RunCommandBound(b, r, ev, cache, ps) ==
    IF ~b.ok
    THEN [NoRun("bind_failed", r.prefix, r.match) EXCEPT
            !.published = BindFailedEvents(ev, b.msg, r.match.command.name),
            !.bind_called = TRUE]
    ELSE RunCommandExecuted(
            ExecuteFunction(r.match.command.func, ev, b.args, cache, ps), b, r)

\* _run_command from the outcome r of the resolution on: no match, a prefix
\* the command does not declare, or the binding
RunCommandResolved(r, ev, cache, ps) ==
    IF r.match = NoResult THEN NoRun("no_match", r.prefix, NoResult)
    ELSE IF ~PrefixAccepted(r.prefix, r.match.command)
    THEN NoRun("prefix_mismatch", r.prefix, r.match)
    ELSE RunCommandBound(Bind(r.match.command, ev, IgnoreWords(r.match)),
                         r, ev, cache, ps)

\* _run_command from the command text on: the first-word scan, then the
\* tokens are resolved
RunCommandText(text, ev, res, cache, ps) ==
    IF CheapHit(FirstWord(text), GetCommands(res.index)) = {}
    THEN NoRun("cheap_reject", P_none, NoResult)
    ELSE RunCommandResolved(
            ResolveFromTokens(Tokenize(text), res.index, res.prefixes),
            ev, cache, ps)

\* _run_command from the outcome pre of the precheck on
RunCommandPrechecked(pre, ev, res, cache, ps) ==
    IF pre = NoResult THEN NoRun("precheck_none", P_none, NoResult)
    ELSE RunCommandText(pre.command_text, ev, res, cache, ps)

\* _run_command
RunCommand(ev, res, cache, ps) ==
    RunCommandPrechecked(Precheck(ev), ev, res, cache, ps)

\* mutant: the pure-filter pass does not skip command functions
IsPureFilter_All(f) == TRUE

\* the guard of _run_pure_filters: command functions are skipped
IsPureFilter(f) == ~IsCommandFunc(f)

NoFilterRun(escaped) ==
    [calls |-> <<>>, logged |-> <<>>, published |-> <<>>, tried |-> {},
     escaped |-> escaped]

\* the effects of one _execute_function call of the loop followed by those
\* of the rest of the loop
ThenFilters(f, x, more) ==
    [calls |-> x.calls \o more.calls,
     logged |-> x.logged \o more.logged,
     published |-> x.published \o more.published,
     tried |-> {f} \cup more.tried,
     escaped |-> more.escaped]

\* _run_pure_filters: every function of the filter registry that is not a
\* command, in registry order; an exception that escapes _execute_function
\* ends the loop
RECURSIVE RunPureFilters(_, _, _, _)
RECURSIVE RunPureFiltersAfter(_, _, _, _, _)
RunPureFiltersAfter(x, fs, ev, cache, ps) ==
    ThenFilters(Head(fs), x,
                IF x.escaped = "none" THEN RunPureFilters(Tail(fs), ev, cache, ps)
                ELSE NoFilterRun(x.escaped))

RunPureFilters(fs, ev, cache, ps) ==
    IF fs = <<>> THEN NoFilterRun("none")
    ELSE IF ~IsPureFilter(Head(fs)) THEN RunPureFilters(Tail(fs), ev, cache, ps)
    ELSE RunPureFiltersAfter(ExecuteFunction(Head(fs), ev, <<>>, cache, ps),
                             fs, ev, cache, ps)

\* the effects of _run_command followed by those of _run_pure_filters
ThenPureFilters(c, f) ==
    [stage |-> c.stage, prefix |-> c.prefix, match |-> c.match, args |-> c.args,
     calls |-> c.calls \o f.calls,
     published |-> c.published \o f.published,
     logged |-> c.logged \o f.logged,
     tried |-> c.tried \cup f.tried,
     bind_called |-> c.bind_called,
     raised |-> f.escaped]

\* mutant: the pure filters run only when _run_command got as far as a handler
Dispatch_FiltersOnlyAfterCommand(ev, res, fs, cache, ps) ==
    ThenPureFilters(RunCommand(ev, res, cache, ps),
                    IF RunCommand(ev, res, cache, ps).stage \in {"ok", "raised", "rejected"}
                    THEN RunPureFilters(fs, ev, cache, ps)
                    ELSE NoFilterRun("none"))

\* the body of handle_message_event after the lazy build: _run_command,
\* then _run_pure_filters whatever _run_command returned
Dispatch(ev, res, fs, cache, ps) ==
    ThenPureFilters(RunCommand(ev, res, cache, ps),
                    RunPureFilters(fs, ev, cache, ps))

\* the prefixes of the command registries, without the empty one
ActivePrefixes(cmds, als) ==
    (UNION {s.prefixes : s \in Range(cmds) \cup Range(als)}) \ {P_none}

\* mutant: the check compares the prefixes for equality only
PrefixConflict_Equal(prefs) ==
    \E p1, p2 \in prefs : p1 # p2 /\ NormalizeCase(p2) = NormalizeCase(p1)

\* the message-level prefix check of initialize_if_needed
PrefixConflict(prefs) ==
    \E p1, p2 \in prefs :
        p1 # p2 /\ StartsWith(NormalizeCase(p2), NormalizeCase(p1))

NoResolver == [exists |-> FALSE, prefixes |-> {}, index |-> EmptyMap, state |-> "Empty"]

\* the resolvers initialize_if_needed can leave in self._resolver when it
\* runs the build, each with whether the build raised
BuildResults(cmds, als) ==
    LET prefs == ActivePrefixes(cmds, als)
        fresh == [exists |-> TRUE, prefixes |-> prefs, index |-> EmptyMap,
                  state |-> "Empty"]
    IN  IF PrefixConflict(prefs)
        THEN {[raised |-> "ValueError", res |-> fresh]}
        ELSE IF PathConflict(cmds, als)
        THEN {[raised |-> "ValueError",
               res |-> [fresh EXCEPT !.index = ix, !.state = "Error"]] :
                    ix \in PartialIndexes(cmds, als)}
        ELSE {[raised |-> "none",
               res |-> [fresh EXCEPT !.index = BuildIndex(cmds, als),
                                     !.state = "Built"]]}

\* self._initialized once initialize_if_needed has run the build: the flag
\* is set before the build starts and is not reset when the build raises
InitializedAfter(raised) == TRUE

\* mutant: the build runs on every call, whatever the flag says
InitializeIfNeeded_Always(init, res, cmds, als) ==
    {[raised |-> b.raised, res |-> b.res, built |-> TRUE,
      init |-> InitializedAfter(b.raised)] : b \in BuildResults(cmds, als)}

\* initialize_if_needed: nothing when already initialized; otherwise the
\* build runs
InitializeIfNeeded(init, res, cmds, als) ==
    IF init THEN {[raised |-> "none", res |-> res, built |-> FALSE, init |-> init]}
    ELSE {[raised |-> b.raised, res |-> b.res, built |-> TRUE,
           init |-> InitializedAfter(b.raised)] : b \in BuildResults(cmds, als)}

\* mutant: the load notification leaves self._initialized as it is
RebuildOnLoad_KeepsFlag(init, res, cmds, als) ==
    InitializeIfNeeded(init, res, cmds, als)

\* handle_plugin_load_event: self._initialized = False, then
\* initialize_if_needed
RebuildOnLoad(init, res, cmds, als) ==
    InitializeIfNeeded(FALSE, res, cmds, als)

\* mutant: the unload notification leaves self._initialized as it is
RebuildOnUnload_KeepsFlag(init, res, cmds, als) ==
    InitializeIfNeeded(init, res, cmds, als)

\* handle_plugin_unload_event after the revocation: self._initialized =
\* False, then initialize_if_needed
RebuildOnUnload(init, res, cmds, als) ==
    InitializeIfNeeded(FALSE, res, cmds, als)

\* lastBuild: "none" before any build, "ok" after a build that returned,
\* "failed_message" / "failed_event" after one that raised, by its caller
BuildRecord(b, by) ==
    IF ~b.built THEN lastBuild
    ELSE IF b.raised = "none" THEN "ok"
    ELSE IF by = "message" THEN "failed_message"
    ELSE "failed_event"

NoSnap == [plugin |-> "None", ver |-> 0, resolver |-> NoResolver]

Idle ==
    [op |-> "idle", ev |-> NoEvent, plugin |-> "None", raised |-> "none",
     built |-> FALSE, stage |-> "none", prefix |-> P_none, match |-> NoResult,
     args |-> <<>>, calls |-> <<>>, published |-> <<>>, logged |-> <<>>,
     bind_called |-> FALSE, returned |-> "none"]

\* what handle_message_event hands back to its caller when it does not
\* raise: the body has no return statement
HandleMessageEventReturn == "None"

\* iter(filter_registry._function_filters.values()): the position reached
\* and the size of the dict when the iterator was made
NoIter == [pos |-> 0, used |-> 0]

NoTask ==
    [pc |-> "idle", ev |-> NoEvent, func |-> "none", how |-> "none",
     it |-> NoIter, owed |-> {}, notified |-> FALSE, raised |-> "none"]

FlightInit == tasks = [t \in Tasks |-> NoTask]

\* ----------------------------------------------------------------- Init
\* the state on_load leaves: nothing registered, no resolver, empty cache
Init ==
    /\ pluginState = [p \in PluginNames |-> "unloaded"]
    /\ pluginVer = [p \in PluginNames |-> 0]
    /\ commands = EmptyMap
    /\ aliases = EmptyMap
    /\ fnFilters = <<>>
    /\ initialized = FALSE
    /\ resolver = NoResolver
    /\ func_plugin_map = EmptyMap
    /\ lastBuild = "none"
    /\ snap = NoSnap
    /\ last = Idle
    /\ RouterInit
    /\ FlightInit
    /\ ConfigInit
    /\ MockInit
    /\ ManagerInit
    /\ SocketInit
    /\ LegacyInit

\* the index is the one a build from the present registry gives
IndexCurrent ==
    /\ initialized
    /\ resolver.state = "Built"
    /\ resolver.prefixes = ActivePrefixes(commands, aliases)
    /\ ~PathConflict(commands, aliases)
    /\ resolver.index = BuildIndex(commands, aliases)

\* -------------------------------------------------------------- actions
\* a plugin version is imported: its decorators register its commands,
\* aliases and filter functions
ImportPlugin(p, v) ==
    /\ last = Idle
    /\ pluginState[p] = "unloaded"
    /\ \A s \in SpecsOf(p, v) : ~DuplicatePath(commands, aliases, s)
    /\ pluginState' = [pluginState EXCEPT ![p] = "registered"]
    /\ pluginVer' = [pluginVer EXCEPT ![p] = v]
    /\ commands' = RegisterCommands(commands, SpecsOf(p, v))
    /\ aliases' = RegisterAliases(aliases, SpecsOf(p, v))
    /\ fnFilters' = fnFilters \o FilterFuncsOf(p)
    /\ snap' = IF snap.plugin = p /\ snap.ver = v THEN snap ELSE NoSnap
    /\ UNCHANGED <<initialized, resolver, func_plugin_map, lastBuild, last>>
    /\ UNCHANGED <<routerVars, flightVars, serviceVars>>

\* handle_plugin_load_event: what it does to the plugin's own state
LoadNotification(p) ==
    /\ last = Idle
    /\ pluginState[p] = "registered"
    /\ \E b \in RebuildOnLoad(initialized, resolver, commands, aliases) :
        /\ initialized' = b.init
        /\ resolver' = b.res
        /\ lastBuild' = BuildRecord(b, "load")
        /\ last' = [Idle EXCEPT !.op = "load", !.plugin = p,
                                !.raised = b.raised, !.built = b.built]
    /\ pluginState' = [pluginState EXCEPT ![p] = "loaded"]
    /\ snap' = IF snap.plugin = p THEN snap ELSE NoSnap
    /\ UNCHANGED <<pluginVer, commands, aliases, fnFilters, func_plugin_map>>

\* handle_plugin_load_event
HandlePluginLoadEvent(p) ==
    LoadNotification(p) /\ UNCHANGED <<routerVars, flightVars, serviceVars>>

\* handle_plugin_unload_event: what it does to the plugin's own state
UnloadNotification(p) ==
    /\ last = Idle
    /\ pluginState[p] = "loaded"
    /\ commands' = RevokePlugin(commands, p)
    /\ aliases' = RevokePlugin(aliases, p)
    /\ fnFilters' = RevokeFilters(fnFilters, p)
    /\ \E b \in RebuildOnUnload(initialized, resolver, commands', aliases') :
        /\ initialized' = b.init
        /\ resolver' = b.res
        /\ lastBuild' = BuildRecord(b, "unload")
        /\ last' = [Idle EXCEPT !.op = "unload", !.plugin = p,
                                !.raised = b.raised, !.built = b.built]
    /\ pluginState' = [pluginState EXCEPT ![p] = "unloaded"]
    /\ pluginVer' = [pluginVer EXCEPT ![p] = 0]
    /\ snap' = IF IndexCurrent
               THEN [plugin |-> p, ver |-> pluginVer[p], resolver |-> resolver]
               ELSE NoSnap
    /\ UNCHANGED func_plugin_map

\* handle_plugin_unload_event
HandlePluginUnloadEvent(p) ==
    UnloadNotification(p) /\ UNCHANGED <<routerVars, flightVars, serviceVars>>

\* handle_message_event
HandleMessageEvent(ev) ==
    /\ last = Idle
    /\ \E b \in InitializeIfNeeded(initialized, resolver, commands, aliases) :
        /\ initialized' = b.init
        /\ resolver' = b.res
        /\ lastBuild' = BuildRecord(b, "message")
        /\ IF b.raised # "none"
           THEN /\ last' = [Idle EXCEPT !.op = "message", !.ev = ev,
                                        !.raised = b.raised, !.built = b.built,
                                        !.stage = "build_failed"]
                /\ UNCHANGED func_plugin_map
           ELSE \E d \in {Dispatch(ev, b.res, fnFilters, func_plugin_map, pluginState)} :
                    /\ last' = [op |-> "message", ev |-> ev, plugin |-> "None",
                                raised |-> d.raised, built |-> b.built,
                                stage |-> d.stage, prefix |-> d.prefix,
                                match |-> d.match, args |-> d.args,
                                calls |-> d.calls, published |-> d.published,
                                logged |-> d.logged,
                                bind_called |-> d.bind_called,
                                returned |-> IF d.raised = "none"
                                             THEN HandleMessageEventReturn
                                             ELSE "none"]
                    /\ func_plugin_map' = CacheAfter(d.tried, func_plugin_map,
                                                     pluginState)
    /\ snap' = NoSnap
    /\ UNCHANGED registryVars
    /\ UNCHANGED <<routerVars, flightVars, serviceVars>>

\* mutant: clear empties the cache and the index but leaves
\* self._initialized as it is
Clear_KeepsFlag ==
    /\ last = Idle
    /\ func_plugin_map' = EmptyMap
    /\ initialized' = initialized
    /\ IF resolver.exists
       THEN /\ resolver' = [resolver EXCEPT !.index = EmptyMap, !.state = "Empty"]
            /\ last' = [Idle EXCEPT !.op = "clear"]
       ELSE /\ resolver' = resolver
            /\ last' = [Idle EXCEPT !.op = "clear", !.raised = "AttributeError"]
    /\ snap' = NoSnap
    /\ UNCHANGED <<registryVars, lastBuild>>
    /\ UNCHANGED <<routerVars, flightVars, serviceVars>>

\* clear: needs self._resolver, which exists once a build has run
Clear ==
    /\ last = Idle
    /\ func_plugin_map' = EmptyMap
    /\ initialized' = FALSE
    /\ IF resolver.exists
       THEN /\ resolver' = [resolver EXCEPT !.index = EmptyMap, !.state = "Empty"]
            /\ last' = [Idle EXCEPT !.op = "clear"]
       ELSE /\ resolver' = resolver
            /\ last' = [Idle EXCEPT !.op = "clear", !.raised = "AttributeError"]
    /\ snap' = NoSnap
    /\ UNCHANGED <<registryVars, lastBuild>>
    /\ UNCHANGED <<routerVars, flightVars, serviceVars>>

\* the handler call returns to the event bus
Return ==
    /\ last # Idle
    /\ last' = Idle
    /\ snap' = IF last.op = "load" THEN NoSnap ELSE snap
    /\ UNCHANGED <<registryVars, initialized, resolver, func_plugin_map, lastBuild>>
    /\ UNCHANGED <<routerVars, flightVars, serviceVars>>

Next ==
    \/ \E p \in PluginNames : \E v \in Variants(p) : ImportPlugin(p, v)
    \/ \E p \in PluginNames : HandlePluginLoadEvent(p)
    \/ \E p \in PluginNames : HandlePluginUnloadEvent(p)
    \/ \E ev \in MessageEvents : HandleMessageEvent(ev)
    \/ Clear
    \/ Return

Spec == Init /\ [][Next]_vars

\* ---------------------------------------------- MessageRouter: actions
\* mutant: a message counts as a response only when its echo is truthy
IsResponse_Truthy(data) == data.hasEcho /\ Truthy(data.echo)

\* _on_message: "echo" in data
IsResponse(data) == data.hasEcho

\* mutant: the response is put on the queue of the first pending send,
\* whatever its echo
DispatchResponse_FirstPending(data, pend, qs) ==
    IF Truthy(data.echo) /\ pend # {}
    THEN LET e == CHOOSE x \in pend : \A y \in pend : x <= y
         IN  IF Len(qs[e]) < QueueMaxSize
             THEN [queues |-> [qs EXCEPT ![e] = Append(@, data)],
                   blocked |-> FALSE]
             ELSE [queues |-> qs, blocked |-> FALSE]
    ELSE [queues |-> qs, blocked |-> FALSE]

\* _dispatch_response: under the lock, the response is put on the queue
\* registered under its echo when the echo is truthy and registered;
\* Queue.put waits while the queue is full
DispatchResponse(data, pend, qs) ==
    IF Truthy(data.echo) /\ data.echo \in pend
    THEN IF Len(qs[data.echo]) < QueueMaxSize
         THEN [queues |-> [qs EXCEPT ![data.echo] = Append(@, data)],
               blocked |-> FALSE]
         ELSE [queues |-> qs, blocked |-> TRUE]
    ELSE [queues |-> qs, blocked |-> FALSE]

\* the event branch of _on_message: the callback is awaited when one is set
ForwardEvent(data, cb) ==
    IF cb # "None"
    THEN [op |-> "on_message", data |-> data, route |-> "event", callback |-> cb,
          callback_calls |-> 1, passed |-> data, raised |-> "none",
          returned |-> TRUE, queues_changed |-> FALSE]
    ELSE [op |-> "on_message", data |-> data, route |-> "event", callback |-> cb,
          callback_calls |-> 0, passed |-> NoData, raised |-> "none",
          returned |-> TRUE, queues_changed |-> FALSE]

\* the event loop is free to run the next callback: it is not inside
\* Queue.put, and the _on_message call recorded last has been observed
LoopFree == loop.state = "running" /\ routed = NoRouted

\* on_load: the socket is created and connect() awaited; connect may raise,
\* the reference stays.  The owner of the service makes its lifecycle calls
\* one after another.
OnLoad ==
    /\ LoopFree
    /\ ~ws.closing
    /\ \E ok \in BOOLEAN :
          ws' = [exists |-> TRUE, connected |-> ok, sent |-> {}, closing |-> FALSE]
    /\ UNCHANGED <<event_callback, pending, queues, sends, loop, routed>>
    /\ UNCHANGED <<vars, flightVars, serviceVars>>

\* on_close up to its await: _pending is cleared under the lock; with a
\* socket the call is suspended in `await self._ws.disconnect()`, without
\* one it returns
OnClose ==
    /\ LoopFree
    /\ ~ws.closing
    /\ pending' = {}
    /\ ws' = IF ws.exists THEN [ws EXCEPT !.closing = TRUE] ELSE ws
    /\ UNCHANGED <<event_callback, queues, sends, loop, routed>>
    /\ UNCHANGED <<vars, flightVars, serviceVars>>

\* on_close resumes after disconnect(): self._ws = None, and it returns
OnCloseResumes ==
    /\ LoopFree
    /\ ws.closing
    /\ ws' = NoWs
    /\ UNCHANGED <<event_callback, pending, queues, sends, loop, routed>>
    /\ UNCHANGED <<vars, flightVars, serviceVars>>

\* set_event_callback
SetEventCallback(cb) ==
    /\ LoopFree
    /\ event_callback' = cb
    /\ UNCHANGED <<ws, pending, queues, sends, loop, routed>>
    /\ UNCHANGED <<vars, flightVars, serviceVars>>

\* mutant: the finally clause of send leaves the echo registered
PopEcho_Keeps(pend, t) == pend

\* the finally clause of send: self._pending.pop(echo, None)
PopEcho(pend, t) == pend \ {EchoOf(t)}

\* the connected property
Connected(w) == w.exists /\ w.connected

\* mutant: send does not look at the socket reference
HasSocket_Always(w) == TRUE

\* send: `if not self._ws` fails
HasSocket(w) == w.exists

\* send, up to the await of self._ws.send: ConnectionError without a
\* socket, otherwise the echo is registered with a new queue; the sends are
\* numbered in the order they are called
SendCall(t) ==
    /\ LoopFree
    /\ sends[t].pc = "idle"
    /\ \A u \in Sends : u < t => sends[u].pc # "idle"
    /\ IF ~HasSocket(ws)
       THEN /\ sends' = [sends EXCEPT ![t].pc = "done", ![t].result = "ConnectionError"]
            /\ UNCHANGED pending
       ELSE /\ sends' = [sends EXCEPT ![t].pc = "sending"]
            /\ pending' = pending \cup {EchoOf(t)}
    /\ UNCHANGED <<event_callback, ws, queues, loop, routed>>
    /\ UNCHANGED <<vars, flightVars, serviceVars>>

\* self._ws.send returns, and queue.get starts on a worker thread; or it
\* raises, and the finally clause removes the echo
SendTransmitted(t) ==
    /\ LoopFree
    /\ sends[t].pc = "sending"
    /\ \/ /\ ws.exists /\ ws.connected
          /\ ws' = [ws EXCEPT !.sent = @ \cup {EchoOf(t)}]
          /\ sends' = [sends EXCEPT ![t].pc = "waiting"]
          /\ UNCHANGED pending
       \/ /\ sends' = [sends EXCEPT ![t].pc = "done", ![t].result = "SendError"]
          /\ pending' = PopEcho(pending, t)
          /\ UNCHANGED ws
    /\ UNCHANGED <<event_callback, queues, loop, routed>>
    /\ UNCHANGED <<vars, flightVars, serviceVars>>

\* the worker thread of send t: queue.get returns the response
ThreadGet(t) ==
    /\ sends[t].pc = "waiting"
    /\ queues[t] # <<>>
    /\ sends' = [sends EXCEPT ![t].pc = "got", ![t].response = Head(queues[t])]
    /\ queues' = [queues EXCEPT ![t] = Tail(@)]
    /\ UNCHANGED <<event_callback, ws, pending, loop, routed>>
    /\ UNCHANGED <<vars, flightVars, serviceVars>>

\* the worker thread of send t: queue.get times out (queue.Empty)
ThreadTimeout(t) ==
    /\ sends[t].pc = "waiting"
    /\ queues[t] = <<>>
    /\ sends' = [sends EXCEPT ![t].pc = "timedout"]
    /\ UNCHANGED <<event_callback, ws, pending, queues, loop, routed>>
    /\ UNCHANGED <<vars, flightVars, serviceVars>>

\* send resumes on the event loop: the finally clause removes the echo, the
\* response is returned or queue.Empty raised
SendReturn(t) ==
    /\ LoopFree
    /\ sends[t].pc \in {"got", "timedout"}
    /\ pending' = PopEcho(pending, t)
    /\ sends' = [sends EXCEPT ![t].pc = "done",
                              ![t].result = IF sends[t].pc = "got"
                                            THEN "response" ELSE "Empty"]
    /\ UNCHANGED <<event_callback, ws, queues, loop, routed>>
    /\ UNCHANGED <<vars, flightVars, serviceVars>>

\* _on_message
OnMessage(data) ==
    /\ LoopFree
    /\ IF IsResponse(data)
       THEN \E d \in {DispatchResponse(data, pending, queues)} :
                /\ queues' = d.queues
                /\ loop' = IF d.blocked
                           THEN [state |-> "blocked", data |-> data]
                           ELSE loop
                /\ routed' = [op |-> "on_message", data |-> data,
                              route |-> "response", callback |-> event_callback,
                              callback_calls |-> 0, passed |-> NoData,
                              raised |-> "none", returned |-> ~d.blocked,
                              queues_changed |-> d.queues # queues]
       ELSE /\ routed' = ForwardEvent(data, event_callback)
            /\ UNCHANGED <<queues, loop>>
    /\ UNCHANGED <<event_callback, ws, pending, sends>>
    /\ UNCHANGED <<vars, flightVars, serviceVars>>

\* the Queue.put the event loop waits in gets its slot: a worker thread has
\* taken the item that filled the queue
PutCompletes ==
    /\ loop.state = "blocked"
    /\ Len(queues[loop.data.echo]) < QueueMaxSize
    /\ queues' = [queues EXCEPT ![loop.data.echo] = Append(@, loop.data)]
    /\ loop' = [state |-> "running", data |-> NoData]
    /\ routed' = [routed EXCEPT !.returned = TRUE, !.queues_changed = TRUE]
    /\ UNCHANGED <<event_callback, ws, pending, sends>>
    /\ UNCHANGED <<vars, flightVars, serviceVars>>

\* the _on_message call recorded last has returned or raised, the loop goes on
OnMessageDone ==
    /\ loop.state = "running"
    /\ routed # NoRouted
    /\ routed' = NoRouted
    /\ UNCHANGED <<event_callback, ws, pending, queues, sends, loop>>
    /\ UNCHANGED <<vars, flightVars, serviceVars>>

NextRouter ==
    \/ OnLoad
    \/ OnClose
    \/ OnCloseResumes
    \/ \E cb \in Callbacks : SetEventCallback(cb)
    \/ \E t \in Sends : SendCall(t)
    \/ \E t \in Sends : SendTransmitted(t)
    \/ \E t \in Sends : ThreadGet(t)
    \/ \E t \in Sends : ThreadTimeout(t)
    \/ \E t \in Sends : SendReturn(t)
    \/ \E data \in InboundData : OnMessage(data)
    \/ PutCompletes
    \/ OnMessageDone

SpecRouter == Init /\ [][NextRouter]_routerVars

\* -------------------------------- dispatch calls in flight: actions
\* the message events delivered while plugins come and go: "/a b 42" from an
\* admin in a group, "a" from another member of the group
FlightEvents ==
    {[hasText |-> TRUE, text |-> P_slash \o Join(<<W_a, W_b, W_42>>),
      admin |-> TRUE, group |-> TRUE, raisers |-> {}],
     [hasText |-> TRUE, text |-> W_a,
      admin |-> FALSE, group |-> TRUE, raisers |-> {}]}

\* the pure filter functions of the registry whose filters accept the event
FiltersDue(fs, ev) ==
    {f \in Range(fs) : IsPureFilter(f) /\ FiltersAccept(f, ev)}

\* handle_message_event ends: it returns, or the exception leaves it
TaskDone(task, raised) ==
    [task EXCEPT !.pc = "done", !.func = "none", !.how = "none",
                 !.it = NoIter, !.raised = raised]

\* the call is suspended in _execute_function, at the await of the pure
\* filter function f, the iterator of the loop standing after position pos
TaskInFilter(task, f, pos) ==
    [task EXCEPT !.pc = "in_filter", !.func = f, !.how = HowToRun(f),
                 !.it.pos = pos, !.owed = @ \ {f}]

\* the for statement of _run_pure_filters asks its iterator for the next
\* function: RuntimeError when the dict has changed size since the iterator
\* was made, the end of the loop after the last entry; a command function or
\* one whose filters reject the event is passed without a suspension
RECURSIVE NextFilter(_, _, _)
NextFilter(task, pos, fs) ==
    IF Len(fs) # task.it.used THEN TaskDone(task, "RuntimeError")
    ELSE IF pos >= Len(fs) THEN TaskDone(task, "none")
    ELSE IF ~(IsPureFilter(fs[pos + 1]) /\ FiltersAccept(fs[pos + 1], task.ev))
    THEN NextFilter(task, pos + 1, fs)
    ELSE IF HowToRun(fs[pos + 1]) = "call"
    THEN NextFilter([task EXCEPT !.owed = @ \ {fs[pos + 1]}], pos + 1, fs)
    ELSE TaskInFilter(task, fs[pos + 1], pos + 1)

\* _run_pure_filters starts: the iterator is made over the dict as it is now
StartPureFilters(task, fs) ==
    NextFilter([task EXCEPT !.it = [pos |-> 0, used |-> Len(fs)]], 0, fs)

\* handle_message_event from the outcome c of _run_command on: suspended at
\* the await of the command handler when one is invoked, otherwise on to
\* the pure filters
AfterRunCommand(task, c, fs) ==
    IF c.calls # <<>> /\ c.calls[1].how # "call"
    THEN [task EXCEPT !.pc = "in_command", !.func = c.calls[1].func,
                      !.how = c.calls[1].how]
    ELSE StartPureFilters(task, fs)

\* no handle_message_event call has just ended: the event bus has taken
\* the outcome of every call that is over
NoTaskDone == \A t \in Tasks : tasks[t].pc # "done"

\* the event bus starts a handle_message_event call; it runs to its first
\* suspension or to its end.  The lowest free slot is taken.
StartDispatch(t, ev) ==
    /\ last = Idle
    /\ NoTaskDone
    /\ tasks[t].pc = "idle"
    /\ \A u \in Tasks : u < t => tasks[u].pc # "idle"
    /\ \E b \in InitializeIfNeeded(initialized, resolver, commands, aliases) :
        /\ initialized' = b.init
        /\ resolver' = b.res
        /\ lastBuild' = BuildRecord(b, "message")
        /\ IF b.raised # "none"
           THEN /\ tasks' = [tasks EXCEPT ![t] =
                                TaskDone([NoTask EXCEPT !.ev = ev], b.raised)]
                /\ UNCHANGED func_plugin_map
           ELSE \E c \in {RunCommand(ev, b.res, func_plugin_map, pluginState)} :
                    /\ tasks' = [tasks EXCEPT ![t] =
                                    AfterRunCommand(
                                        [NoTask EXCEPT !.ev = ev,
                                                       !.owed = FiltersDue(fnFilters, ev)],
                                        c, fnFilters)]
                    /\ func_plugin_map' = CacheAfter(c.tried, func_plugin_map,
                                                     pluginState)
    /\ snap' = NoSnap
    /\ UNCHANGED <<registryVars, last, routerVars, serviceVars>>

\* the handler a call is suspended in returns (the coroutine ends, or the
\* worker thread is done) and the call goes on from its await
ResumeTask(t) ==
    /\ last = Idle
    /\ NoTaskDone
    /\ tasks[t].pc \in {"in_command", "in_filter"}
    /\ tasks' = [tasks EXCEPT ![t] =
                    IF tasks[t].pc = "in_command"
                    THEN StartPureFilters(tasks[t], fnFilters)
                    ELSE NextFilter(tasks[t], tasks[t].it.pos, fnFilters)]
    /\ UNCHANGED <<vars, routerVars, serviceVars>>

\* the event bus takes the outcome of a call that is over
TaskReturn(t) ==
    /\ tasks[t].pc = "done"
    /\ tasks' = [tasks EXCEPT ![t] = NoTask]
    /\ UNCHANGED <<vars, routerVars, serviceVars>>

\* the plugin loader's steps, taken between the steps of the calls in flight
FlightImportPlugin(p) == NoTaskDone /\ ImportPlugin(p, 1)

\* the calls that are suspended have seen a notification handled
Notified(ts) ==
    [t \in Tasks |-> IF ts[t].pc \in {"in_command", "in_filter"}
                     THEN [ts[t] EXCEPT !.notified = TRUE]
                     ELSE ts[t]]

FlightLoadEvent(p) ==
    /\ NoTaskDone
    /\ LoadNotification(p)
    /\ tasks' = Notified(tasks)
    /\ UNCHANGED <<routerVars, serviceVars>>

FlightUnloadEvent(p) ==
    /\ NoTaskDone
    /\ UnloadNotification(p)
    /\ tasks' = Notified(tasks)
    /\ UNCHANGED <<routerVars, serviceVars>>

NextFlight ==
    \/ \E p \in PluginNames : FlightImportPlugin(p)
    \/ \E p \in PluginNames : FlightLoadEvent(p)
    \/ \E p \in PluginNames : FlightUnloadEvent(p)
    \/ Return
    \/ \E t \in Tasks : TaskReturn(t)
    \/ \E t \in Tasks : \E ev \in FlightEvents : StartDispatch(t, ev)
    \/ \E t \in Tasks : ResumeTask(t)

SpecInFlight == Init /\ [][NextFlight]_<<vars, flightVars>>

\* ---------------------------------------- ConfigPersistence: actions
\* _load_existing_data_async: the document of the config file; {} when the
\* path names nothing or the file is empty (yaml.safe_load gives None)
LoadExistingData(path, dsk) ==
    IF path = NoFile THEN [raised |-> FALSE, doc |-> EmptyDocument]
    ELSE IF dsk[path].kind = "garbled" THEN [raised |-> TRUE, doc |-> EmptyDocument]
    ELSE [raised |-> FALSE, doc |-> dsk[path].doc]

\* _save_item_async / _save_item_sync: the item is popped when deleted is
\* set, otherwise existing_data[...][name] = configs[plugin_name][name],
\* KeyError when memory does not hold the item
MergeItem(existing, name, cfg, deleted) ==
    IF deleted THEN [raised |-> FALSE, doc |-> [existing EXCEPT ![name] = Absent]]
    ELSE IF cfg[name] = Absent THEN [raised |-> TRUE, doc |-> existing]
    ELSE [raised |-> FALSE, doc |-> [existing EXCEPT ![name] = cfg[name]]]

\* save_all: existing_data["plugin_config"] = configs
MergeAll(existing, cfg) ==
    [raised |-> FALSE,
     doc |-> [i \in Entries |-> IF i \in PluginConfigEntries THEN cfg[i]
                                ELSE existing[i]]]

\* the document a save writes, from the one it loaded
Merged(save, existing, cfg) ==
    IF save.kind = "all" THEN MergeAll(existing, cfg)
    ELSE MergeItem(existing, save.name, cfg, save.deleted)

\* the caller's change of the item in memory: set, or deleted
SetInMemory(cfg, name, v) == [cfg EXCEPT ![name] = v]

\* f.write(yaml.dump(data)) through a descriptor of its own, at offset 0:
\* the file holds the document when it was empty or held the same bytes,
\* otherwise the new bytes over the old ones
WriteOver(content, data) ==
    IF content.kind = "empty" \/ content = DocContent(data)
    THEN {DocContent(data)}
    ELSE {DocContent(data), GarbledContent}

\* the caller sets the item in memory and calls atomic_save_item, which
\* creates the task; the saves are numbered in the order they are scheduled
AtomicSaveItem(t, name, v) ==
    /\ saves[t].pc = "idle"
    /\ \A u \in Saves : u < t => saves[u].pc # "idle"
    /\ configs' = SetInMemory(configs, name, v)
    /\ saves' = [saves EXCEPT ![t] = [NoSave EXCEPT !.pc = "scheduled",
                                                    !.kind = "item",
                                                    !.name = name,
                                                    !.deleted = (v = Absent)]]
    /\ UNCHANGED <<config_path, tmp_path, disk>>
    /\ UNCHANGED <<vars, routerVars, flightVars, mockVars, runtimeVars>>

\* save_all is awaited by a task of the event loop
SaveAll(t) ==
    /\ saves[t].pc = "idle"
    /\ \A u \in Saves : u < t => saves[u].pc # "idle"
    /\ saves' = [saves EXCEPT ![t] = [NoSave EXCEPT !.pc = "scheduled",
                                                    !.kind = "all"]]
    /\ UNCHANGED <<configs, config_path, tmp_path, disk>>
    /\ UNCHANGED <<vars, routerVars, flightVars, mockVars, runtimeVars>>

\* atomic_save_item called where no event loop runs (a worker thread, or
\* before the loop starts): _save_item_sync loads, merges, writes the
\* temporary file and replaces the config file before it returns; every
\* error is caught and logged
SaveItemSync(t, name, v) ==
    /\ saves[t].pc = "idle"
    /\ \A u \in Saves : u < t => saves[u].pc # "idle"
    /\ configs' = SetInMemory(configs, name, v)
    /\ \E e \in {LoadExistingData(config_path, disk)} :
       \E m \in {MergeItem(e.doc, name, configs', v = Absent)} :
       \E f \in {IF tmp_path = NoFile THEN t + 1 ELSE tmp_path} :
          IF e.raised \/ m.raised
          THEN /\ saves' = [saves EXCEPT ![t] =
                              [NoSave EXCEPT !.pc = "done", !.kind = "sync",
                                             !.name = name,
                                             !.deleted = (v = Absent),
                                             !.error = IF e.raised THEN "YAMLError"
                                                       ELSE "KeyError"]]
               /\ UNCHANGED <<config_path, tmp_path, disk>>
          ELSE /\ saves' = [saves EXCEPT ![t] =
                              [NoSave EXCEPT !.pc = "done", !.kind = "sync",
                                             !.name = name,
                                             !.deleted = (v = Absent),
                                             !.data = m.doc]]
               /\ disk' = [disk EXCEPT ![f] = DocContent(m.doc)]
               /\ config_path' = f
               /\ tmp_path' = NoFile
    /\ UNCHANGED <<vars, routerVars, flightVars, mockVars, runtimeVars>>

\* _save_item_async up to the await of aiofiles.open(tmp_path, "w"): the
\* file is read and the item merged in; an unreadable file ends the save
\* in the except clause
SaveLoads(t) ==
    /\ saves[t].pc = "scheduled"
    /\ \E e \in {LoadExistingData(config_path, disk)} :
       \E m \in {Merged(saves[t], e.doc, configs)} :
          saves' = [saves EXCEPT ![t] =
                      IF e.raised
                      THEN [@ EXCEPT !.pc = "done", !.error = "YAMLError"]
                      ELSE IF m.raised
                      THEN [@ EXCEPT !.pc = "done", !.error = "KeyError"]
                      ELSE [@ EXCEPT !.pc = "loaded", !.data = m.doc]]
    /\ UNCHANGED <<configs, config_path, tmp_path, disk>>
    /\ UNCHANGED <<vars, routerVars, flightVars, mockVars, runtimeVars>>

\* _write_data_async: open(tmp_path, "w") creates the file or truncates
\* the one that is there
SaveOpensTmp(t) ==
    /\ saves[t].pc = "loaded"
    /\ \E f \in {IF tmp_path = NoFile THEN t + 1 ELSE tmp_path} :
          /\ tmp_path' = f
          /\ disk' = [disk EXCEPT ![f] = EmptyContent]
          /\ saves' = [saves EXCEPT ![t].pc = "opened", ![t].fd = f]
    /\ UNCHANGED <<configs, config_path>>
    /\ UNCHANGED <<vars, routerVars, flightVars, mockVars, runtimeVars>>

\* _write_data_async: await f.write(yaml.dump(data))
SaveWrites(t) ==
    /\ saves[t].pc = "opened"
    /\ \E c \in WriteOver(disk[saves[t].fd], saves[t].data) :
          disk' = [disk EXCEPT ![saves[t].fd] = c]
    /\ saves' = [saves EXCEPT ![t].pc = "written"]
    /\ UNCHANGED <<configs, config_path, tmp_path>>
    /\ UNCHANGED <<vars, routerVars, flightVars, mockVars, runtimeVars>>

\* _write_data_async: the file is closed and tmp_path.replace(config_path)
\* renames whatever tmp_path names now; FileNotFoundError when it names
\* nothing, caught by the except clause of the save
SaveReplaces(t) ==
    /\ saves[t].pc = "written"
    /\ IF tmp_path = NoFile
       THEN /\ saves' = [saves EXCEPT ![t].pc = "done",
                                      ![t].error = "FileNotFoundError"]
            /\ UNCHANGED <<config_path, tmp_path>>
       ELSE /\ config_path' = tmp_path
            /\ tmp_path' = NoFile
            /\ saves' = [saves EXCEPT ![t].pc = "done"]
    /\ UNCHANGED <<configs, disk>>
    /\ UNCHANGED <<vars, routerVars, flightVars, mockVars, runtimeVars>>

NextConfig ==
    \/ \E t \in Saves : \E name \in Items : \E v \in ItemValues \cup {Absent} :
          AtomicSaveItem(t, name, v)
    \/ \E t \in Saves : \E name \in Items : \E v \in ItemValues \cup {Absent} :
          SaveItemSync(t, name, v)
    \/ \E t \in Saves : SaveAll(t)
    \/ \E t \in Saves : SaveLoads(t)
    \/ \E t \in Saves : SaveOpensTmp(t)
    \/ \E t \in Saves : SaveWrites(t)
    \/ \E t \in Saves : SaveReplaces(t)

SpecConfig == Init /\ [][NextConfig]_configVars

\* ---------------------------------------- MockMessageRouter: actions
\* mutant: the action name is used as it is passed
Lstrip_Keeps(action) == action

\* action.lstrip("/"): the leading slashes go, a slash inside stays
Lstrip(action) == [action EXCEPT !.lead = 0]

\* send: params.copy() if params else None - None and the empty dict both
\* give None, any other dict a copy that is an object of the history
RecordedParams(params) ==
    IF params.obj = "None" \/ params.items = 0
    THEN NoParams
    ELSE [params EXCEPT !.obj = "history"]

\* the response of the table of defaults, or {"retcode": 0, "data": {}}
DefaultResponse(name) ==
    IF name = "get_login_info"
    THEN [obj |-> "copy", from |-> "default_table", id |-> 0]
    ELSE [obj |-> "copy", from |-> "default", id |-> 0]

\* send: the configured response of the stripped action, copied, when there
\* is one, otherwise the default
ResponseFor(action, responses) ==
    IF action.lead = 0 /\ responses[action.name] # NoResponse
    THEN [responses[action.name] EXCEPT !.obj = "copy"]
    ELSE DefaultResponse(action.name)

\* send
MockSend(action, params) ==
    /\ Len(call_history) < MaxCalls
    /\ call_history' = Append(call_history, <<Lstrip(action), RecordedParams(params)>>)
    /\ mock_last' = [op |-> "send", action |-> action, params |-> params,
                     returned |-> ResponseFor(Lstrip(action), api_responses)]
    /\ UNCHANGED api_responses
    /\ UNCHANGED <<vars, routerVars, flightVars, configVars, runtimeVars>>

\* set_api_response
SetApiResponse(action, response) ==
    /\ api_responses' = [api_responses EXCEPT ![Lstrip(action).name] = response]
    /\ mock_last' = [NoMockCall EXCEPT !.op = "set_api_response"]
    /\ UNCHANGED call_history
    /\ UNCHANGED <<vars, routerVars, flightVars, configVars, runtimeVars>>

\* clear_call_history
ClearCallHistory ==
    /\ call_history' = <<>>
    /\ mock_last' = [NoMockCall EXCEPT !.op = "clear_call_history"]
    /\ UNCHANGED api_responses
    /\ UNCHANGED <<vars, routerVars, flightVars, configVars, runtimeVars>>

\* on_close of the mock: history and configured responses both go
MockOnClose ==
    /\ call_history' = <<>>
    /\ api_responses' = [a \in ActionNames |-> NoResponse]
    /\ mock_last' = [NoMockCall EXCEPT !.op = "on_close"]
    /\ UNCHANGED <<vars, routerVars, flightVars, configVars, runtimeVars>>

NextMock ==
    \/ \E action \in ActionInputs : \E params \in ParamInputs : MockSend(action, params)
    \/ \E action \in ActionInputs : \E response \in ResponseInputs :
          SetApiResponse(action, response)
    \/ ClearCallHistory
    \/ MockOnClose

SpecMock == Init /\ [][NextMock]_mockVars

\* --------------------------------------------- ServiceManager: actions
\* service_name in self._services
Has(svcs, name) == \E k \in DOMAIN svcs : svcs[k][1] = name

\* self._services[service_name]
Get(svcs, name) == (CHOOSE k \in DOMAIN svcs : svcs[k][1] = name)

\* list_services()
ListServices(svcs) == [k \in DOMAIN svcs |-> svcs[k][1]]

\* self._services[service_name] = service: a new key goes to the end, an
\* existing key keeps its place
SetService(svcs, name, inst) ==
    IF Has(svcs, name)
    THEN [k \in DOMAIN svcs |-> IF svcs[k][1] = name THEN <<name, inst>> ELSE svcs[k]]
    ELSE Append(svcs, <<name, inst>>)

\* del self._services[service_name]
DelService(svcs, name) == SelectSeq(svcs, LAMBDA e : e[1] # name)

\* mutant: load enters the instance in self._services whether _load
\* raised or not
AfterLoad_TracksFailed(svcs, name, inst, ok) == SetService(svcs, name, inst)

\* load after `await service._load()`: the assignment is reached only when
\* _load returned
AfterLoad(svcs, name, inst, ok) ==
    IF ok THEN SetService(svcs, name, inst) ELSE svcs

\* a caller with no manager call in progress
CallerFree(c) == mgr_calls[c].pc = "idle"

\* load(service_name) is called
Load(c, name) ==
    /\ CallerFree(c)
    /\ mgr_calls' = [mgr_calls EXCEPT ![c] = [NoCall EXCEPT !.op = "load", !.todo = <<name>>,
                                                    !.pc = "ready"]]
    /\ UNCHANGED <<services, instances, created>>
    /\ UNCHANGED <<vars, routerVars, flightVars, configVars, mockVars, socketVars, legacyVars>>

\* load_all() is called: it visits the registered names in order
LoadAll(c) ==
    /\ CallerFree(c)
    /\ mgr_calls' = [mgr_calls EXCEPT ![c] = [NoCall EXCEPT !.op = "load_all",
                                                    !.todo = RegistrationOrder,
                                                    !.pc = "ready"]]
    /\ UNCHANGED <<services, instances, created>>
    /\ UNCHANGED <<vars, routerVars, flightVars, configVars, mockVars, socketVars, legacyVars>>

\* load up to `await service._load()`: the existing instance is returned,
\* KeyError for an unregistered name, otherwise an instance is created and
\* its _load awaited; load_all skips the names that are loaded
LoadStep(c) ==
    /\ mgr_calls[c].op \in {"load", "load_all"}
    /\ mgr_calls[c].pc = "ready"
    /\ IF mgr_calls[c].todo = <<>>
       THEN /\ mgr_calls' = [mgr_calls EXCEPT ![c].pc = "done", ![c].result = "returned"]
            /\ UNCHANGED <<instances, created>>
       ELSE \E name \in {Head(mgr_calls[c].todo)} :
            IF Has(services, name)
            THEN /\ mgr_calls' = [mgr_calls EXCEPT ![c] =
                    IF mgr_calls[c].op = "load"
                    THEN [@ EXCEPT !.pc = "done", !.result = "existing",
                                   !.name = name,
                                   !.inst = services[Get(services, name)][2]]
                    ELSE [@ EXCEPT !.todo = Tail(@)]]
                 /\ UNCHANGED <<instances, created>>
            ELSE IF name \notin RegisteredNames
            THEN /\ mgr_calls' = [mgr_calls EXCEPT ![c].pc = "done", ![c].name = name,
                                           ![c].result = "KeyError"]
                 /\ UNCHANGED <<instances, created>>
            ELSE /\ created < MaxInstances
                 /\ created' = created + 1
                 /\ instances' = [instances EXCEPT ![created + 1] =
                                    [name |-> name, state |-> "loading", closes |-> 0]]
                 /\ mgr_calls' = [mgr_calls EXCEPT ![c].pc = "in_load", ![c].name = name,
                                           ![c].inst = created + 1]
    /\ UNCHANGED services
    /\ UNCHANGED <<vars, routerVars, flightVars, configVars, mockVars, socketVars, legacyVars>>

\* `await service._load()` returns or raises: the instance is entered in
\* self._services, or the error goes to the caller
LoadResumes(c) ==
    /\ mgr_calls[c].pc = "in_load"
    /\ \E ok \in BOOLEAN :
          /\ services' = AfterLoad(services, mgr_calls[c].name, mgr_calls[c].inst, ok)
          /\ instances' = [instances EXCEPT ![mgr_calls[c].inst].state =
                             IF ok THEN "loaded" ELSE "failed"]
          /\ mgr_calls' = [mgr_calls EXCEPT ![c] =
                IF ~ok THEN [@ EXCEPT !.pc = "done", !.result = "raised"]
                ELSE IF mgr_calls[c].op = "load"
                THEN [@ EXCEPT !.pc = "done", !.result = "loaded"]
                ELSE [@ EXCEPT !.pc = "ready", !.todo = Tail(@)]]
    /\ UNCHANGED created
    /\ UNCHANGED <<vars, routerVars, flightVars, configVars, mockVars, socketVars, legacyVars>>

\* unload(service_name) is called
Unload(c, name) ==
    /\ CallerFree(c)
    /\ mgr_calls' = [mgr_calls EXCEPT ![c] = [NoCall EXCEPT !.op = "unload", !.todo = <<name>>,
                                                    !.pc = "ready"]]
    /\ UNCHANGED <<services, instances, created>>
    /\ UNCHANGED <<vars, routerVars, flightVars, configVars, mockVars, socketVars, legacyVars>>

\* close_all() is called: list(self._services.keys()) is taken
CloseAll(c) ==
    /\ CallerFree(c)
    /\ mgr_calls' = [mgr_calls EXCEPT ![c] = [NoCall EXCEPT !.op = "close_all",
                                                    !.todo = ListServices(services),
                                                    !.found = services,
                                                    !.pc = "ready"]]
    /\ UNCHANGED <<services, instances, created>>
    /\ UNCHANGED <<vars, routerVars, flightVars, configVars, mockVars, socketVars, legacyVars>>

\* unload up to `await self._services[service_name]._close()`: a name
\* that is not loaded is passed over
UnloadStep(c) ==
    /\ mgr_calls[c].op \in {"unload", "close_all"}
    /\ mgr_calls[c].pc = "ready"
    /\ IF mgr_calls[c].todo = <<>>
       THEN /\ mgr_calls' = [mgr_calls EXCEPT ![c].pc = "done", ![c].result = "returned"]
            /\ UNCHANGED instances
       ELSE \E name \in {Head(mgr_calls[c].todo)} :
            IF ~Has(services, name)
            THEN /\ mgr_calls' = [mgr_calls EXCEPT ![c].todo = Tail(@)]
                 /\ UNCHANGED instances
            ELSE \E i \in {services[Get(services, name)][2]} :
                 /\ instances[i].closes < MaxCloses
                 /\ instances' = [instances EXCEPT ![i].closes = @ + 1,
                                                   ![i].state = "closing"]
                 /\ mgr_calls' = [mgr_calls EXCEPT ![c].pc = "in_close", ![c].name = name,
                                           ![c].inst = i]
    /\ UNCHANGED <<services, created>>
    /\ UNCHANGED <<vars, routerVars, flightVars, configVars, mockVars, socketVars, legacyVars>>

\* `await ..._close()` returns or raises: del self._services[service_name]
\* (KeyError when the name has gone meanwhile), or the error goes to the
\* caller with the entry left in place
UnloadResumes(c) ==
    /\ mgr_calls[c].pc = "in_close"
    /\ \E ok \in BOOLEAN :
          IF ~ok
          THEN /\ mgr_calls' = [mgr_calls EXCEPT ![c].pc = "done", ![c].result = "raised"]
               /\ instances' = [instances EXCEPT ![mgr_calls[c].inst].state = "close_failed"]
               /\ UNCHANGED services
          ELSE /\ instances' = [instances EXCEPT ![mgr_calls[c].inst].state = "closed"]
               /\ IF Has(services, mgr_calls[c].name)
                  THEN /\ services' = DelService(services, mgr_calls[c].name)
                       /\ mgr_calls' = [mgr_calls EXCEPT ![c].pc = "ready", ![c].todo = Tail(@)]
                  ELSE /\ mgr_calls' = [mgr_calls EXCEPT ![c].pc = "done",
                                                 ![c].result = "KeyError"]
                       /\ UNCHANGED services
    /\ UNCHANGED created
    /\ UNCHANGED <<vars, routerVars, flightVars, configVars, mockVars, socketVars, legacyVars>>

\* the caller has its result and is free for its next call
CallReturns(c) ==
    /\ mgr_calls[c].pc = "done"
    /\ mgr_calls' = [mgr_calls EXCEPT ![c] = NoCall]
    /\ UNCHANGED <<services, instances, created>>
    /\ UNCHANGED <<vars, routerVars, flightVars, configVars, mockVars, socketVars, legacyVars>>

NextManager ==
    \/ \E c \in Callers : \E name \in ServiceNames : Load(c, name)
    \/ \E c \in Callers : LoadAll(c)
    \/ \E c \in Callers : LoadStep(c)
    \/ \E c \in Callers : LoadResumes(c)
    \/ \E c \in Callers : \E name \in ServiceNames : Unload(c, name)
    \/ \E c \in Callers : CloseAll(c)
    \/ \E c \in Callers : UnloadStep(c)
    \/ \E c \in Callers : UnloadResumes(c)
    \/ \E c \in Callers : CallReturns(c)

SpecManager == Init /\ [][NextManager]_managerVars

\* ---- WebSocketService: on_load, listen, _reconnect, on_close

\* a connection websockets.connect has not handed out yet
ConnAvailable == \E c \in Conns : conns[c] = "none"

NextConn == CHOOSE c \in Conns :
                /\ conns[c] = "none"
                /\ \A d \in Conns : d < c => conns[d] # "none"

ListenReturned(lst) == [lst EXCEPT !.pc = "done", !.result = "returned"]

ListenRaised(lst, err) == [lst EXCEPT !.pc = "done", !.result = err]

\* `while self._running:` followed by `async for raw in self._client:` -
\* the iteration starts on the client of that moment, or listen returns
WhileRunning(lst, run, cl) ==
    IF run THEN [lst EXCEPT !.pc = "iter", !.conn = cl]
           ELSE ListenReturned(lst)

\* lines 152-163: a message reaches the event callback when the service is
\* running, the message has no echo, and a callback is set
Delivers(run, kind, cb) == run /\ kind = "event" /\ cb

\* on_load: connect, then self._running = True
SocketOnLoad ==
    /\ client = NoClient /\ ~running /\ closer.pc = "idle" /\ ConnAvailable
    /\ \E c \in {NextConn} :
          /\ client' = c
          /\ conns' = [conns EXCEPT ![c] = "open"]
    /\ running' = TRUE
    /\ UNCHANGED <<ws_callback, listen_task, listen, cancel_requested,
                   closer, attempted, ws_log>>
    /\ UNCHANGED <<vars, routerVars, flightVars, configVars, mockVars, managerVars, legacyVars>>

\* start_listening: self._listen_task = asyncio.create_task(self.listen())
SocketStartListening ==
    /\ listen.pc = "none" /\ closer.pc = "idle"
    /\ listen_task' = TRUE
    /\ listen' = [listen EXCEPT !.pc = "created"]
    /\ UNCHANGED <<running, client, ws_callback, conns, cancel_requested,
                   closer, attempted, ws_log>>
    /\ UNCHANGED <<vars, routerVars, flightVars, configVars, mockVars, managerVars, legacyVars>>

\* `await service.listen()` by a caller of its own: no listen task is kept
ListenDirect ==
    /\ listen.pc = "none" /\ closer.pc = "idle"
    /\ listen' = [listen EXCEPT !.pc = "created"]
    /\ UNCHANGED <<running, client, ws_callback, listen_task, conns,
                   cancel_requested, closer, attempted, ws_log>>
    /\ UNCHANGED <<vars, routerVars, flightVars, configVars, mockVars, managerVars, legacyVars>>

\* listen, lines 144-151: ConnectionError without a client, else the loop
ListenStarts ==
    /\ listen.pc = "created" /\ ~cancel_requested
    /\ listen' = IF client = NoClient
                 THEN ListenRaised(listen, "ConnectionError")
                 ELSE WhileRunning(listen, running, client)
    /\ UNCHANGED <<running, client, ws_callback, listen_task, conns,
                   cancel_requested, closer, attempted, ws_log>>
    /\ UNCHANGED <<vars, routerVars, flightVars, configVars, mockVars, managerVars, legacyVars>>

\* the iterator yields a message, lines 151-163: break when not running,
\* _dispatch_response for a message with an echo, else the event callback
Receive(kind) ==
    /\ listen.pc = "iter" /\ ~cancel_requested
    /\ conns[listen.conn] = "open"
    /\ Len(ws_log) < MaxMessages
    /\ ws_log' = Append(ws_log, [conn |-> listen.conn, kind |-> kind,
                                 closed |-> closer.pc # "idle",
                                 delivered |-> Delivers(running, kind, ws_callback)])
    /\ listen' = IF Delivers(running, kind, ws_callback)
                 THEN [listen EXCEPT !.pc = "callback"]
                 ELSE IF ~running THEN ListenReturned(listen) ELSE listen
    /\ UNCHANGED <<running, client, ws_callback, listen_task, conns,
                   cancel_requested, closer, attempted>>
    /\ UNCHANGED <<vars, routerVars, flightVars, configVars, mockVars, managerVars, legacyVars>>

\* `await self._event_callback(data)` returns, or raises and listen
\* re-raises (lines 178-180)
CallbackReturns(ok) ==
    /\ listen.pc = "callback" /\ ~cancel_requested
    /\ listen' = IF ok THEN [listen EXCEPT !.pc = "iter"]
                       ELSE ListenRaised(listen, "error")
    /\ UNCHANGED <<running, client, ws_callback, listen_task, conns,
                   cancel_requested, closer, attempted, ws_log>>
    /\ UNCHANGED <<vars, routerVars, flightVars, configVars, mockVars, managerVars, legacyVars>>

\* the peer or the network ends connection c: with a normal close, or in
\* a way the iterator reports as ConnectionClosedError
Drop(c, how) ==
    /\ conns[c] = "open"
    /\ conns' = [conns EXCEPT ![c] = how]
    /\ UNCHANGED <<running, client, ws_callback, listen_task, listen,
                   cancel_requested, closer, attempted, ws_log>>
    /\ UNCHANGED <<vars, routerVars, flightVars, configVars, mockVars, managerVars, legacyVars>>

\* the async for ends without an exception (normal close): back to
\* `while self._running`, which iterates self._client again or returns
IterEnds ==
    /\ listen.pc = "iter" /\ ~cancel_requested
    /\ conns[listen.conn] = "closed_ok"
    /\ listen' = IF running
                 THEN [listen EXCEPT !.conn = client, !.respun = TRUE]
                 ELSE ListenReturned(listen)
    /\ UNCHANGED <<running, client, ws_callback, listen_task, conns,
                   cancel_requested, closer, attempted, ws_log>>
    /\ UNCHANGED <<vars, routerVars, flightVars, configVars, mockVars, managerVars, legacyVars>>

\* the async for raises ConnectionClosedError, lines 168-176: break when
\* not running, else _reconnect, which fails at once when
\* napcat_service_ok is false and else awaits websockets.connect
IterRaises(service_ok) ==
    /\ listen.pc = "iter" /\ ~cancel_requested
    /\ conns[listen.conn] = "closed_err"
    /\ IF ~running
       THEN /\ listen' = ListenReturned(listen)
            /\ UNCHANGED attempted
       ELSE /\ attempted' = attempted \cup {listen.conn}
            /\ listen' = IF service_ok
                         THEN [listen EXCEPT !.pc = "reconnect"]
                         ELSE ListenRaised(listen, "NcatBotConnectionError")
    /\ UNCHANGED <<running, client, ws_callback, listen_task, conns,
                   cancel_requested, closer, ws_log>>
    /\ UNCHANGED <<vars, routerVars, flightVars, configVars, mockVars, managerVars, legacyVars>>

\* _reconnect, lines 210-218, after the await of websockets.connect: the
\* new client is assigned and listen continues its loop, or the connect
\* raised and listen raises NcatBotConnectionError
ReconnectCompletes(ok) ==
    /\ listen.pc = "reconnect" /\ ~cancel_requested
    /\ IF ok
       THEN /\ ConnAvailable
            /\ \E c \in {NextConn} :
                  /\ client' = c
                  /\ conns' = [conns EXCEPT ![c] = "open"]
                  /\ listen' = WhileRunning(listen, running, c)
       ELSE /\ listen' = ListenRaised(listen, "NcatBotConnectionError")
            /\ UNCHANGED <<client, conns>>
    /\ UNCHANGED <<running, ws_callback, listen_task, cancel_requested,
                   closer, attempted, ws_log>>
    /\ UNCHANGED <<vars, routerVars, flightVars, configVars, mockVars, managerVars, legacyVars>>

\* the cancelled listen task is resumed with CancelledError: caught at
\* line 165 inside the try, passed on from the except clause of the
\* reconnect and from a task that never started
ListenCancelled ==
    /\ cancel_requested
    /\ listen.pc \in {"created", "iter", "callback", "reconnect"}
    /\ listen' = IF listen.pc \in {"iter", "callback"}
                 THEN ListenReturned(listen)
                 ELSE ListenRaised(listen, "cancelled")
    /\ cancel_requested' = FALSE
    /\ UNCHANGED <<running, client, ws_callback, listen_task, conns,
                   closer, attempted, ws_log>>
    /\ UNCHANGED <<vars, routerVars, flightVars, configVars, mockVars, managerVars, legacyVars>>

\* on_close lines 82-83 reached: close the client there is, or finish
CloseClientOrDone(cl) ==
    IF cl # NoClient THEN [pc |-> "closing", result |-> "none", conn |-> cl]
                     ELSE [pc |-> "done", result |-> "returned", conn |-> NoClient]

\* on_close, lines 69-83 up to its first await: not running; with a
\* listen task cancel it and await it, else go on to the client
SocketOnClose ==
    /\ closer.pc = "idle"
    /\ running' = FALSE
    /\ IF listen_task
       THEN /\ cancel_requested' = (listen.pc # "done")
            /\ closer' = [pc |-> "await_task", result |-> "none", conn |-> NoClient]
       ELSE /\ closer' = CloseClientOrDone(client)
            /\ UNCHANGED cancel_requested
    /\ UNCHANGED <<client, ws_callback, listen_task, conns, listen,
                   attempted, ws_log>>
    /\ UNCHANGED <<vars, routerVars, flightVars, configVars, mockVars, managerVars, legacyVars>>

\* on_close, lines 73-83: the awaited listen task has ended; only
\* CancelledError is caught, any other exception of the task leaves
\* on_close
CloseTaskAwaited ==
    /\ closer.pc = "await_task"
    /\ listen.pc = "done"
    /\ IF listen.result \in {"returned", "cancelled"}
       THEN /\ listen_task' = FALSE
            /\ closer' = CloseClientOrDone(client)
       ELSE /\ closer' = [pc |-> "done", result |-> "raised", conn |-> NoClient]
            /\ UNCHANGED listen_task
    /\ UNCHANGED <<running, client, ws_callback, conns, listen,
                   cancel_requested, attempted, ws_log>>
    /\ UNCHANGED <<vars, routerVars, flightVars, configVars, mockVars, managerVars, legacyVars>>

\* on_close, line 83: `await self._client.close()` closes the connection
CloseClient ==
    /\ closer.pc = "closing"
    /\ conns' = [conns EXCEPT ![closer.conn] =
                    IF conns[closer.conn] = "open" THEN "closed_ok"
                                                   ELSE conns[closer.conn]]
    /\ closer' = [closer EXCEPT !.pc = "closed_client"]
    /\ UNCHANGED <<running, client, ws_callback, listen_task, listen,
                   cancel_requested, attempted, ws_log>>
    /\ UNCHANGED <<vars, routerVars, flightVars, configVars, mockVars, managerVars, legacyVars>>

\* on_close, line 84: self._client = None
CloseDone ==
    /\ closer.pc = "closed_client"
    /\ client' = NoClient
    /\ closer' = [closer EXCEPT !.pc = "done", !.result = "returned"]
    /\ UNCHANGED <<running, ws_callback, listen_task, conns, listen,
                   cancel_requested, attempted, ws_log>>
    /\ UNCHANGED <<vars, routerVars, flightVars, configVars, mockVars, managerVars, legacyVars>>

\* the steps listen takes by itself once it is resumed
ListenProgress ==
    \/ ListenStarts
    \/ \E ok \in BOOLEAN : CallbackReturns(ok)
    \/ IterEnds
    \/ \E ok \in BOOLEAN : IterRaises(ok)
    \/ \E ok \in BOOLEAN : ReconnectCompletes(ok)
    \/ ListenCancelled

NextSocket ==
    \/ SocketOnLoad
    \/ SocketStartListening
    \/ ListenDirect
    \/ ListenStarts
    \/ \E kind \in {"event", "response"} : Receive(kind)
    \/ \E ok \in BOOLEAN : CallbackReturns(ok)
    \/ \E c \in Conns, how \in {"closed_ok", "closed_err"} : Drop(c, how)
    \/ IterEnds
    \/ \E ok \in BOOLEAN : IterRaises(ok)
    \/ \E ok \in BOOLEAN : ReconnectCompletes(ok)
    \/ ListenCancelled
    \/ SocketOnClose
    \/ CloseTaskAwaited
    \/ CloseClient
    \/ CloseDone

SpecSocket == Init /\ [][NextSocket]_socketVars

\* the steps on_close takes by itself after its first await
CloseProgress == CloseTaskAwaited \/ CloseClient \/ CloseDone

\* the event loop resumes a coroutine that can go on: the steps of listen
\* and of on_close are taken when they stay possible; what the peer sends
\* and whether on_close is called at all is left open
SpecSocketFair ==
    SpecSocket /\ WF_socketVars(ListenProgress) /\ WF_socketVars(CloseProgress)

\* ---- handle_legacy_event

\* mutant: both lists are run whatever the post_type
LegacyHandlersFor_Both(ev, ns, rs) == ns \o rs

\* lines 287-292: the list handle_legacy_event iterates for the event
LegacyHandlersFor(ev, ns, rs) ==
    IF ev.post_type = "notice" THEN ns
    ELSE IF ev.post_type = "request" THEN rs
    ELSE <<>>

\* line 293
HandleLegacyEventReturn == "True"

\* the for loop of lines 288-289 / 291-292: _execute_function for each
\* function of the list in turn; an exception that escapes
\* _execute_function ends the loop
RECURSIVE RunLegacyHandlers(_, _, _, _)
RECURSIVE RunLegacyHandlersAfter(_, _, _, _, _)
RunLegacyHandlersAfter(x, fs, ev, cache, ps) ==
    ThenFilters(Head(fs), x,
                IF x.escaped = "none" THEN RunLegacyHandlers(Tail(fs), ev, cache, ps)
                ELSE NoFilterRun(x.escaped))

RunLegacyHandlers(fs, ev, cache, ps) ==
    IF fs = <<>> THEN NoFilterRun("none")
    ELSE RunLegacyHandlersAfter(ExecuteFunction(Head(fs), ev, <<>>, cache, ps),
                                fs, ev, cache, ps)

\* handle_legacy_event, with the two lists as the registry holds them at
\* the call
HandleLegacyEvent(ev, ns, rs) ==
    /\ legacy_last = NoLegacyCall
    /\ \E r \in {RunLegacyHandlers(LegacyHandlersFor(ev, ns, rs), ev,
                                   func_plugin_map, pluginState)} :
          /\ legacy_last' = [op |-> "legacy", ev |-> ev, notice |-> ns,
                             request |-> rs, calls |-> r.calls,
                             logged |-> r.logged, tried |-> r.tried,
                             raised |-> r.escaped,
                             returned |-> IF r.escaped = "none"
                                          THEN HandleLegacyEventReturn
                                          ELSE "none"]
          /\ func_plugin_map' = CacheAfter(r.tried, func_plugin_map, pluginState)
    /\ UNCHANGED <<registryVars, initialized, resolver, lastBuild, snap, last>>
    /\ UNCHANGED <<routerVars, flightVars, configVars, mockVars, managerVars,
                   socketVars>>

\* the event bus has taken the result of the call
LegacyEventDone ==
    /\ legacy_last # NoLegacyCall
    /\ legacy_last' = NoLegacyCall
    /\ UNCHANGED vars
    /\ UNCHANGED <<routerVars, flightVars, configVars, mockVars, managerVars,
                   socketVars>>

NextLegacy ==
    \/ \E ev \in LegacyEvents, ns \in HandlerLists, rs \in HandlerLists :
          HandleLegacyEvent(ev, ns, rs)
    \/ LegacyEventDone

SpecLegacy == Init /\ [][NextLegacy]_<<legacyVars, func_plugin_map>>

\* ------------------------------------------------- claims: vocabulary
\* how often the function f was invoked while the last event was handled
CallsOf(f) == Cardinality({i \in DOMAIN last.calls : last.calls[i].func = f})

\* the invocations of command handlers
CommandCalls == {i \in DOMAIN last.calls : IsCommandFunc(last.calls[i].func)}

\* the arguments the function f was invoked with
ArgsPassedTo(f) == {last.calls[i].args : i \in {j \in DOMAIN last.calls : last.calls[j].func = f}}

IsPrefixOf(p, q) == Len(p) <= Len(q) /\ SubSeq(q, 1, Len(p)) = p

\* the command paths the injected messages can begin with
HeadPaths == {SubSeq(h, 1, k) : <<h, k>> \in {x \in HeadWords \X (1..2) : x[2] <= Len(x[1])}}

\* the word sequences a message can carry after a command path
ArgSeqs ==
    {SubSeq(h \o t, k, Len(h \o t)) :
        <<h, t, k>> \in {x \in HeadWords \X WordSeqs(MaxArgs) \X (1..(MaxArgs + 3)) :
                            x[3] <= Len(x[1] \o x[2]) + 1}}

\* the ways to read an injected text as a prefix, a command path and the
\* words after it
Readings ==
    {r \in {[text |-> pre \o Join(q \o t), pre |-> pre, q |-> q, t |-> t] :
                pre \in TextPrefixes, q \in HeadPaths, t \in ArgSeqs} :
        r.text \in Texts}

\* the readings of the last message
Addressed ==
    IF last.ev.hasText THEN {r \in Readings : r.text = last.ev.text} ELSE {}

\* q is the path of a command of the index, and no deeper path of the index
\* runs along the words q t
DeepestCommand(q, t) ==
    /\ q \in DOMAIN resolver.index
    /\ resolver.index[q].path_words = q
    /\ \A q2 \in DOMAIN resolver.index :
            IsPrefixOf(q2, q \o t) => Len(q2) <= Len(q)

\* the words t can be bound to the parameters
ArgsFit(params, t) ==
    \A i \in 1..Len(params) :
        IF i <= Len(t) THEN params[i].type = "int" => IsIntLiteral(t[i])
        ELSE ~params[i].required

ArgValues(params, t) ==
    [i \in 1..Len(params) |->
        IF i > Len(t) THEN params[i].default
        ELSE IF params[i].type = "int" THEN ParseInt(t[i]) ELSE t[i]]

\* the predicates attached to f all accept the last event
AllPredicatesAccept(f) == \A name \in FiltersOf(f) : Predicate(name, last.ev)

\* the last call was a handle_message_event that got past the lazy build
Dispatched == last.op = "message" /\ last.stage # "build_failed"

\* _run_command reached _execute_function: resolved, prefix confirmed, bound
ReachedHandler ==
    /\ Dispatched
    /\ last.stage \notin {"precheck_none", "cheap_reject", "no_match",
                          "prefix_mismatch", "bind_failed"}

\* --------------------------------------------------------------- claims
\* C1 - longest match: with commands at a path p and at a longer path q that
\* extends p, a message whose words begin with q resolves to the command at
\* q with all of q as the matched path; the handler at p is not invoked; and
\* when the prefix is one of the command's, the words after q fit its
\* parameters and its filters accept, its handler is invoked once, with the
\* values of the words after q as arguments.
C1_LongestMatch ==
    Dispatched =>
        \A r \in Addressed :
        \A p \in DOMAIN resolver.index :
            (/\ r.pre \in resolver.prefixes \cup {P_none}
             /\ p # r.q
             /\ IsPrefixOf(p, r.q)
             /\ DeepestCommand(r.q, r.t))
            => LET spec == resolver.index[r.q]
               IN  /\ last.match # NoResult
                   /\ last.match.command = spec
                   /\ last.match.path_words = r.q
                   /\ resolver.index[p].func # spec.func
                        => CallsOf(resolver.index[p].func) = 0
                   /\ (/\ r.pre \in spec.prefixes
                       /\ ArgsFit(spec.params, r.t)
                       /\ AllPredicatesAccept(spec.func))
                        => /\ CallsOf(spec.func) = 1
                           /\ ArgsPassedTo(spec.func) = {ArgValues(spec.params, r.t)}

C1_Witness ==
    /\ Dispatched
    /\ <<W_a>> \in DOMAIN resolver.index
    /\ last.ev.text = P_slash \o Join(<<W_a, W_b, W_42>>)
    /\ last.match # NoResult
    /\ last.match.path_words = <<W_a, W_b>>
    /\ CallsOf("f_ab") = 1
    /\ CallsOf("f_a") = 0
    /\ ArgsPassedTo("f_ab") = {<<42>>}

\* C2 - filter gating: once a command is resolved and its arguments are
\* bound, its handler is invoked exactly once, with the bound arguments, if
\* every predicate attached to it accepts the event, and it is not invoked
\* and nothing is published if some predicate rejects.
C2_FilterGating ==
    ReachedHandler =>
        LET f == last.match.command.func
        IN  IF AllPredicatesAccept(f)
            THEN /\ CallsOf(f) = 1
                 /\ ArgsPassedTo(f) = {last.args}
                 /\ CommandCalls # {}
                 /\ \A i \in CommandCalls : last.calls[i].func = f
            ELSE /\ CommandCalls = {}
                 /\ last.published = <<>>

\* a command with two predicates, one accepting and one rejecting
C2_Witness ==
    /\ ReachedHandler
    /\ last.match.command.func = "f_b"
    /\ last.ev.group
    /\ ~last.ev.admin
    /\ CallsOf("f_b") = 0

OutcomeOf(c) ==
    IF c.stage \in {"precheck_none", "cheap_reject", "no_match", "prefix_mismatch"}
    THEN <<"no-match">>
    ELSE <<c.match.command.name, c.match.path_words, c.prefix>>

Outcome(text, res) ==
    OutcomeOf(RunCommand([hasText |-> TRUE, text |-> text, admin |-> TRUE,
                          group |-> TRUE, raisers |-> {}],
                         res, EmptyMap, pluginState))

\* C4 - idempotent reload: a plugin is unloaded while the index is the one
\* built from the registry, the same version is imported and its load
\* notification handled, nothing else in between; then the build succeeds
\* and every text resolves as it did before the unload.
C4_IdempotentReload ==
    (last.op = "load" /\ snap.plugin = last.plugin) =>
        /\ last.raised = "none"
        /\ \A text \in Texts : Outcome(text, resolver) = Outcome(text, snap.resolver)

C4_Witness ==
    /\ last.op = "load"
    /\ last.plugin = "P"
    /\ snap.plugin = "P"
    /\ pluginState["Q"] = "loaded"
    /\ Outcome(P_slash \o Join(<<W_a, W_b, W_42>>), resolver)
            = <<"ab", <<W_a, W_b>>, P_slash>>
    /\ Outcome(P_bang \o Join(<<W_b, W_a>>), resolver) = <<"b", <<W_b, W_a>>, P_bang>>

\* two registered specs declare distinct non-empty prefixes, one a leading
\* substring of the other
ContainedPrefixes ==
    \E s1, s2 \in Range(commands) \cup Range(aliases) :
    \E p1 \in s1.prefixes, p2 \in s2.prefixes :
        /\ p1 # P_none
        /\ p1 # p2
        /\ StartsWith(p2, p1)

\* C5 - prefix conflict rejection: a build that runs while the active
\* prefixes hold two distinct prefixes, one a leading substring of the other,
\* raises, whatever the commands.
C5_PrefixConflictRejected ==
    (last.built /\ ContainedPrefixes) => last.raised = "ValueError"

C5_Witness ==
    /\ last.built
    /\ ContainedPrefixes
    /\ ~PathConflict(commands, aliases)
    /\ last.raised = "ValueError"

\* C6 - fatal build failure: a build run by handle_message_event that fails
\* raises to the caller, and until a later build succeeds no
\* handle_message_event invokes a command handler.
C6_FatalBuildFailure ==
    (last.op = "message" /\ lastBuild = "failed_message") =>
        /\ last.built => last.raised = "ValueError"
        /\ CommandCalls = {}

\* C7 - bind error handling: a message addressed to a command under one of
\* its prefixes with words that cannot be bound makes handle_message_event
\* publish exactly one ncatbot.param_bind_failed record with the event, the
\* message and the command name, invoke no command handler and raise nothing.
C7_BindErrorReported ==
    Dispatched =>
        \A r \in Addressed :
            (/\ r.pre \in resolver.prefixes \cup {P_none}
             /\ DeepestCommand(r.q, r.t)
             /\ r.pre \in resolver.index[r.q].prefixes
             /\ ~ArgsFit(resolver.index[r.q].params, r.t))
            => /\ Len(last.published) = 1
               /\ last.published[1].type = "ncatbot.param_bind_failed"
               /\ last.published[1].event = last.ev
               /\ last.published[1].cmd = resolver.index[r.q].name
               /\ last.published[1].msg # ""
               /\ CommandCalls = {}
               /\ last.raised = "none"

C7_Witness ==
    /\ Dispatched
    /\ last.ev.text = P_bang \o Join(<<W_a, W_b, W_b>>)
    /\ Len(last.published) = 1
    /\ last.published[1].cmd = "ab"
    /\ last.published[1].msg = "cannot convert parameter"
    /\ CommandCalls = {}

\* the pure filter functions due for the last event: registered, not a
\* command, their own predicates accepting
PureFiltersDue ==
    {f \in Funcs : /\ \E i \in DOMAIN fnFilters : fnFilters[i] = f
                   /\ ~IsCommandFunc(f)
                   /\ AllPredicatesAccept(f)}

\* a handler invoked for the last event raised
SomeHandlerRaised == \E i \in DOMAIN last.calls : last.calls[i].func \in last.ev.raisers

\* C8 - handler failure isolation: when a handler invoked for a message
\* event raises, handle_message_event raises nothing and every pure filter
\* function due for the event is still invoked.
C8_HandlerFailureIsolated ==
    (Dispatched /\ SomeHandlerRaised) =>
        /\ last.raised = "none"
        /\ \A f \in PureFiltersDue : CallsOf(f) = 1

\* the command handler and a pure filter raise, a later pure filter runs
C8_Witness ==
    /\ Dispatched
    /\ last.raised = "none"
    /\ \E i, j, k \in DOMAIN last.calls :
        /\ i < j /\ j < k
        /\ last.calls[i].func = "f_ab" /\ "f_ab" \in last.ev.raisers
        /\ last.calls[j].func = "g_p" /\ "g_p" \in last.ev.raisers
        /\ last.calls[k].func = "g_q"

\* a command handler invoked for the last event raised
CommandHandlerRaised ==
    \E i \in CommandCalls : last.calls[i].func \in last.ev.raisers

C10_PureFiltersAlwaysRun ==
    Dispatched =>
        \A f \in Funcs :
            ~IsCommandFunc(f) => CallsOf(f) = IF f \in PureFiltersDue THEN 1 ELSE 0

C10_Witness ==
    /\ Dispatched
    /\ last.stage = "bind_failed"
    /\ PureFiltersDue = {"g_p", "g_q"}
    /\ CallsOf("g_p") = 1
    /\ CallsOf("g_q") = 1

\* the resolver's verdict on the text of the last message
Resolution ==
    ResolveFromTokens(Tokenize(last.ev.text), resolver.index, resolver.prefixes)

\* the last message resolves to nothing, or to a command under a prefix the
\* command does not declare
ResolutionFails ==
    \/ Resolution.match = NoResult
    \/ Resolution.prefix \notin Resolution.match.command.prefixes

\* C11 - silent resolution failure: when the text of a message resolves to no
\* command, or to a command that does not declare the matched prefix,
\* handle_message_event invokes no command handler, does not call the binder,
\* publishes nothing and raises nothing.
C11_SilentResolutionFailure ==
    (Dispatched /\ ResolutionFails) =>
        /\ CommandCalls = {}
        /\ ~last.bind_called
        /\ last.published = <<>>
        /\ last.raised = "none"

\* "!a": the command a is matched under "!", which only the command a b
\* declares; a pure filter still runs
C11_Witness ==
    /\ Dispatched
    /\ last.ev.text = P_bang \o W_a
    /\ last.stage = "prefix_mismatch"
    /\ last.match.command.name = "a"
    /\ ~last.bind_called
    /\ CallsOf("g_p") = 1

C13_AtMostOneCommand ==
    last.op = "message" =>
        /\ Cardinality(CommandCalls) <= 1
        /\ \A i \in CommandCalls :
                /\ i = 1
                /\ last.match # NoResult
                /\ last.calls[i].func = last.match.command.func

\* "/a b 42" from an admin in a group: f_ab, which is also entered in the
\* filter registry, is invoked once, and the pure filter g_p after it
C13_Witness ==
    /\ Dispatched
    /\ last.stage = "ok"
    /\ last.match.command.func = "f_ab"
    /\ CallsOf("f_ab") = 1
    /\ CallsOf("g_p") = 1
    /\ Len(last.calls) >= 2

\* every registration has been notified: no plugin is imported but not yet
\* announced by a load notification
AllMutationsNotified == \A p \in PluginNames : pluginState[p] # "registered"

\* the resolver is one that a build from the present registry leaves
BuiltFromRegistry ==
    resolver \in {b.res : b \in BuildResults(commands, aliases)}

\* C14 - index freshness: a load or unload notification replaces the whole
\* index by one built from the registry as it is after the mutation, and a
\* handle_message_event that runs when every mutation has been notified
\* resolves against an index built from the present registry, never against
\* one built before the mutation.
C14_IndexFreshness ==
    /\ last.op \in {"load", "unload"} => BuiltFromRegistry
    /\ (Dispatched /\ AllMutationsNotified) => BuiltFromRegistry

\* both plugins loaded and announced; a later message that needs no build
\* resolves to Q's command b
C14_Witness ==
    /\ Dispatched
    /\ ~last.built
    /\ pluginState = [p \in PluginNames |-> "loaded"]
    /\ last.match # NoResult
    /\ last.match.command.func = "f_b"
    /\ BuiltFromRegistry

\* the readings of the last message that address a command of the index
\* whose first parameter is an integer, under one of its prefixes, with a
\* word for that parameter
IntAddressed ==
    {r \in Addressed :
        /\ r.pre \in resolver.prefixes \cup {P_none}
        /\ DeepestCommand(r.q, r.t)
        /\ r.pre \in resolver.index[r.q].prefixes
        /\ Len(resolver.index[r.q].params) = 1
        /\ resolver.index[r.q].params[1].type = "int"
        /\ Len(r.t) = 1}

\* C17 - bind type safety: when the word for an integer parameter is not an
\* integer literal the binding fails, the failure is published and the
\* handler is not invoked; when the word is "42" the binding succeeds and
\* the handler, if its filters accept the event, is invoked once with the
\* integer 42.
C17_BindTypeSafety ==
    Dispatched =>
        \A r \in IntAddressed :
            /\ ~IsIntLiteral(r.t[1]) =>
                    /\ last.stage = "bind_failed"
                    /\ CommandCalls = {}
                    /\ Len(last.published) = 1
                    /\ last.published[1].type = "ncatbot.param_bind_failed"
            /\ r.t[1] = W_42 =>
                    /\ last.bind_called
                    /\ last.published = <<>>
                    /\ last.args = <<42>>
                    /\ ArgsPassedTo(resolver.index[r.q].func) \subseteq {<<42>>}
                    /\ AllPredicatesAccept(resolver.index[r.q].func) =>
                            CallsOf(resolver.index[r.q].func) = 1

\* "/a b 42" from an admin: f_ab receives the integer 42
C17_Witness ==
    /\ Dispatched
    /\ last.ev.text = P_slash \o Join(<<W_a, W_b, W_42>>)
    /\ IntAddressed # {}
    /\ ArgsPassedTo("f_ab") = {<<42>>}

\* "/a b b": the word b is no integer literal, f_ab is not invoked
C17_WitnessRejected ==
    /\ Dispatched
    /\ last.ev.text = P_slash \o Join(<<W_a, W_b, W_b>>)
    /\ IntAddressed # {}
    /\ last.stage = "bind_failed"

\* C18 - handle_message_event returns a boolean: every call that does not
\* raise hands True or False back to its caller, never None.
C18_ReturnsBoolean ==
    (last.op = "message" /\ last.raised = "none") =>
        last.returned \in {"True", "False"}

\* C19 - administrative reset: when clear() returns, the func-to-plugin
\* cache is empty, the resolver index is empty and in the Empty state and
\* the plugin is marked uninitialized; a handle_message_event that finds the
\* plugin uninitialized runs the build from the current registry first, and
\* resolves only when the build succeeded, against the index it built.
C19_AdministrativeReset ==
    [][/\ (last'.op = "clear" /\ last'.raised = "none") =>
            /\ func_plugin_map' = EmptyMap
            /\ resolver'.index = EmptyMap
            /\ resolver'.state = "Empty"
            /\ ~initialized'
       /\ (~initialized /\ last'.op = "message") =>
            /\ last'.built
            /\ resolver' \in {b.res : b \in BuildResults(commands, aliases)}
            /\ IF last'.raised = "none"
               THEN /\ resolver'.state = "Built"
                    /\ resolver'.index = BuildIndex(commands, aliases)
                    /\ OutcomeOf(last') = Outcome(last'.ev.text, resolver')
               ELSE last'.stage = "build_failed" /\ last'.calls = <<>>
      ]_vars

\* P is loaded, so a build has run and set the flag; a message that builds
\* again is the first one after a clear(), and it resolves to the command a b
C19_Witness ==
    /\ last.op = "message"
    /\ last.built
    /\ pluginState["P"] = "loaded"
    /\ last.stage = "ok"
    /\ last.match.command.func = "f_ab"

\* C20 - echo discrimination: _on_message takes a message as an API response
\* exactly when it has the key "echo", whatever the value, and never passes
\* such a message to the event callback; a message without the key is
\* passed to the event callback exactly once when one is set, and is dropped
\* without an error when none is set.
C20_EchoDiscrimination ==
    routed.op = "on_message" =>
        /\ routed.route = "response" <=> routed.data.hasEcho
        /\ routed.data.hasEcho => routed.callback_calls = 0
        /\ (~routed.data.hasEcho /\ routed.callback # "None") =>
                /\ routed.callback_calls = 1
                /\ routed.passed = routed.data
                /\ routed.queues_changed = FALSE
        /\ (~routed.data.hasEcho /\ routed.callback = "None") =>
                /\ routed.callback_calls = 0
                /\ routed.raised = "none"
                /\ routed.returned
                /\ routed.queues_changed = FALSE

\* a message whose "echo" key holds null arrives while a callback is set:
\* it is taken as a response and the callback is not called
C20_Witness ==
    /\ routed.op = "on_message"
    /\ routed.data.hasEcho
    /\ routed.data.echo = EchoNone
    /\ routed.callback = "cb"
    /\ routed.route = "response"
    /\ routed.callback_calls = 0

\* an event arrives while a callback is set and a send is waiting
C20_WitnessEvent ==
    /\ routed.op = "on_message"
    /\ ~routed.data.hasEcho
    /\ routed.callback = "cb"
    /\ routed.callback_calls = 1
    /\ pending # {}

\* C15 - in-flight dispatch survives registry change: a handle_message_event
\* call that was suspended at a handler's await while a plugin load or unload
\* notification was handled ends without raising, and when it ends it has
\* invoked every pure filter function due for its event that was registered
\* when it started and still is.
C15_InFlightSurvives ==
    \A t \in Tasks :
        (tasks[t].pc = "done" /\ tasks[t].notified) =>
            /\ tasks[t].raised = "none"
            /\ tasks[t].owed \cap Range(fnFilters) = {}

\* a call is suspended in a handler: the event loop is free for other calls
Suspended(task) == task.pc \in {"in_command", "in_filter"}

\* the handler the call is suspended in runs where _execute_function puts
\* it: a coroutine function in the task itself, any other on a worker thread
RunsOffLoopOrAwaited(task) ==
    task.how = IF IsCoroutineFunc(task.func) THEN "await" ELSE "to_thread"

\* the handler _run_command invokes for the event of a call that has started
HandlerStartedFor(task, res, cache, ps) ==
    RunCommand(task.ev, res, cache, ps).calls

\* C16 - non-blocking synchronous handlers: a handle_message_event call that
\* invokes a command handler leaves the event loop at that handler, awaiting
\* a worker thread when the handler is synchronous and the handler's own
\* coroutine when it is asynchronous; the same holds for every pure filter
\* function a call is suspended in.  No handler runs on the event loop.
C16_NonBlockingSyncHandlers ==
    [][\A t \in Tasks :
          /\ Suspended(tasks'[t]) => RunsOffLoopOrAwaited(tasks'[t])
          /\ (tasks[t].pc = "idle" /\ tasks'[t].pc # "idle"
                /\ tasks'[t].raised = "none")
               => \A calls \in {HandlerStartedFor(tasks'[t], resolver',
                                                   func_plugin_map, pluginState)} :
                      calls # <<>> =>
                          /\ tasks'[t].pc = "in_command"
                          /\ tasks'[t].func = calls[1].func
      ]_<<vars, flightVars>>

\* two calls are in their synchronous command handler at once: the one
\* delivered second was preprocessed, resolved and had its handler started
\* while the handler of the first was running on its worker thread
C16_Witness ==
    \A t \in Tasks :
        /\ tasks[t].pc = "in_command"
        /\ tasks[t].func = "f_ab"
        /\ tasks[t].how = "to_thread"

\* a call is awaiting an asynchronous handler in its own task
C16_WitnessAwaited ==
    \E t \in Tasks :
        /\ Suspended(tasks[t])
        /\ IsCoroutineFunc(tasks[t].func)
        /\ tasks[t].how = "await"

\* send t has its response: queue.get has returned it, or send has
InFlightStates == {"sending", "waiting", "got", "timedout"}

HasResponse(t) ==
    sends[t].pc = "got" \/ (sends[t].pc = "done" /\ sends[t].result = "response")

\* C21 - request/response correlation: the response a send has taken from
\* its queue, and returns, carries the echo of the request that send
\* transmitted; no send gets the response to another request, whatever the
\* order the responses arrive in.
C21_Correlation ==
    \A t \in Sends :
        HasResponse(t) =>
            /\ sends[t].response.hasEcho
            /\ sends[t].response.echo = EchoOf(t)

\* two sends are in flight and the response to the second has arrived and
\* been taken while the first still waits for its own
C21_Witness ==
    /\ sends[1].pc = "waiting"
    /\ queues[1] = <<>>
    /\ sends[2].pc = "got"
    /\ sends[2].response.echo = EchoOf(2)

\* the echoes of the sends that have registered and not yet left
InFlightEchoes(ss) == {EchoOf(t) : t \in {u \in Sends : ss[u].pc \in InFlightStates}}

\* C22 - pending-set invariant, as the code keeps it: _pending holds only
\* echoes of sends in flight; a send is registered from its first step on
\* and its echo is gone once it has returned or raised; _pending holds all
\* the echoes in flight until an on_close empties it under them.
C22_PendingWithinInFlight ==
    [][/\ pending' \subseteq InFlightEchoes(sends')
       /\ \A t \in Sends :
              (sends[t].pc = "idle" /\ sends'[t].pc \in InFlightStates)
                  => EchoOf(t) \in pending'
       /\ pending = InFlightEchoes(sends)
              => \/ pending' = InFlightEchoes(sends')
                 \/ pending' = {} /\ (ws'.closing \/ ~ws'.exists)
      ]_routerVars

\* one send has returned its response and is out of _pending while the
\* other, still waiting, is in it
C22_Witness ==
    /\ sends[1].pc = "done"
    /\ sends[1].result = "response"
    /\ sends[2].pc = "waiting"
    /\ pending = {EchoOf(2)}

\* C22 as stated: _pending holds exactly the echoes of the sends in flight
C22_PendingExact == pending = InFlightEchoes(sends)

\* C23 - response dispatch frame: whatever message _dispatch_response is
\* given, in whatever state of the router, the only queue it can change is
\* the one registered in _pending under the message's echo, which gets the
\* message appended; with an echo that is missing, null, empty or not
\* registered it changes no queue, does not wait and raises nothing.
C23_DispatchFrame ==
    \A data \in InboundData :
        \A d \in {DispatchResponse(data, pending, queues)} :
            /\ \A t \in Sends :
                  d.queues[t] # queues[t] =>
                      /\ data.echo = EchoOf(t)
                      /\ EchoOf(t) \in pending
                      /\ d.queues[t] = Append(queues[t], data)
            /\ (~Truthy(data.echo) \/ data.echo \notin pending) =>
                  (d.queues = queues /\ ~d.blocked)

\* _on_message has dispatched the response to the first send onto its
\* queue while the second send is registered too, its queue left empty
C23_Witness ==
    /\ routed.op = "on_message"
    /\ routed.route = "response"
    /\ routed.queues_changed
    /\ routed.data.echo = EchoOf(1)
    /\ queues[1] = <<routed.data>>
    /\ EchoOf(2) \in pending
    /\ queues[2] = <<>>

\* C24 - send without a connection: a send called while the router holds no
\* socket (before on_load, after on_close) ends at once with
\* ConnectionError; nothing is transmitted, _pending and the queues are as
\* they were.
C24_SendWithoutConnection ==
    [][\A t \in Sends :
          (sends[t].pc = "idle" /\ sends'[t].pc # "idle" /\ ~ws.exists) =>
              /\ sends'[t].pc = "done"
              /\ sends'[t].result = "ConnectionError"
              /\ pending' = pending
              /\ ws' = ws
              /\ queues' = queues
      ]_routerVars

\* a send called after on_close has raised ConnectionError while a send
\* made before the close is still in flight
C24_Witness ==
    /\ sends[2].pc = "done"
    /\ sends[2].result = "ConnectionError"
    /\ sends[1].pc \in InFlightStates
    /\ ~ws.exists
    /\ pending = {}

\* C25 - lifecycle: when on_close returns, _pending is empty, the socket
\* reference is None and connected is False; connected becomes True only by
\* an on_load whose connect() succeeded, on a socket no close is under way
\* for, and it is True only while the socket reports connected.
C25_Lifecycle ==
    [][/\ (ws.closing /\ ~ws'.closing) =>
              /\ pending' = {}
              /\ ~ws'.exists
              /\ ~Connected(ws')
       /\ (~Connected(ws) /\ Connected(ws')) =>
              /\ ws'.connected
              /\ ws'.sent = {}
              /\ ~ws.closing
      ]_routerVars

\* every save task that was scheduled has completed, and there was one
AllSavesCompleted ==
    /\ \A t \in Saves : saves[t].pc \in {"idle", "done"}
    /\ \E t \in Saves : saves[t].pc = "done"

\* the items saved so far
SavedItems ==
    {saves[t].name : t \in {u \in Saves : saves[u].kind \in {"item", "sync"}}}

\* C26 - write-through config persistence: once every save task scheduled
\* by atomic_save_item has completed, the config file is a complete
\* document that holds, for every item saved, the value the item has in
\* memory.
C26_WriteThrough ==
    AllSavesCompleted =>
        /\ config_path # NoFile
        /\ disk[config_path].kind = "doc"
        /\ \A name \in SavedItems : disk[config_path].doc[name] = configs[name]

\* C27 - atomic config file replacement: at every moment the config file
\* holds a complete document, never an empty, partial or interleaved
\* write, also while two saves run concurrently.
C27_AtomicReplace ==
    config_path # NoFile => disk[config_path].kind = "doc"

\* a send has run in this step: the history is one entry longer
SendStep == Len(call_history') = Len(call_history) + 1

\* what the send of this step hands back, and the rest of its effect: one
\* entry appended, under the action name without its leading slashes; the
\* response configured for that name, as a copy, or else the default one
SendRecordsAndAnswers(entryParams) ==
    /\ call_history' =
          Append(call_history,
                 <<[lead |-> 0, name |-> mock_last'.action.name], entryParams>>)
    /\ api_responses' = api_responses
    /\ mock_last'.returned.obj = "copy"
    /\ IF api_responses[mock_last'.action.name] # NoResponse
       THEN /\ mock_last'.returned.from = "configured"
            /\ mock_last'.returned.id = api_responses[mock_last'.action.name].id
       ELSE mock_last'.returned.from \in {"default", "default_table"}

\* clear_call_history empties the history and keeps the responses
ClearKeepsResponses ==
    mock_last'.op = "clear_call_history" =>
        (call_history' = <<>> /\ api_responses' = api_responses)

\* C28 - mock call recording, as the code does it: every send appends one
\* entry, in call order, of the action without leading slashes and a copy
\* of params, the copy being None when params is None or an empty dict; it
\* returns the configured response of the action when there is one and the
\* default response otherwise; clear_call_history empties the history and
\* leaves the configured responses.
C28_MockRecording ==
    [][/\ SendStep =>
              SendRecordsAndAnswers(
                  IF mock_last'.params.obj = "None" \/ mock_last'.params.items = 0
                  THEN NoParams
                  ELSE [obj |-> "history", items |-> mock_last'.params.items])
       /\ ClearKeepsResponses
      ]_mockVars

\* the second send of a history was made with two leading slashes for an
\* action that has a configured response, after a different first call
C28_Witness ==
    /\ Len(call_history) = 2
    /\ mock_last.op = "send"
    /\ mock_last.action.lead = 2
    /\ mock_last.params.items = 1
    /\ mock_last.returned.from = "configured"
    /\ call_history[2] = <<[lead |-> 0, name |-> mock_last.action.name],
                           [obj |-> "history", items |-> 1]>>
    /\ call_history[1] # call_history[2]

\* C28 as stated: the entry holds a copy of params whenever params is a dict
C28_RecordsCopyOfParams ==
    [][/\ SendStep =>
              SendRecordsAndAnswers(
                  IF mock_last'.params.obj = "None"
                  THEN NoParams
                  ELSE [obj |-> "history", items |-> mock_last'.params.items])
       /\ ClearKeepsResponses
      ]_mockVars

\* the last call was a handle_message_event that got as far as
\* resolve_from_tokens
ResolvedAgainstIndex ==
    /\ Dispatched
    /\ last.stage \notin {"precheck_none", "cheap_reject"}

\* C29 - no half-built index: the plugin is marked initialized only when
\* the most recent build returned without error, and a message is resolved
\* only against a resolver whose build completed.
C29_NoHalfBuiltIndex ==
    /\ initialized => lastBuild = "ok"
    /\ ResolvedAgainstIndex => lastBuild = "ok"

\* C30 - cheap-reject soundness: a message whose text tokenization and
\* resolve_from_tokens resolve to a command of the index, by canonical path
\* or by alias, under a prefix the command declares, is not turned away by
\* the first-word scan.
C30_CheapRejectSound ==
    (Dispatched /\ last.ev.hasText /\ last.ev.text # <<>> /\ ~ResolutionFails)
        => last.stage # "cheap_reject"

\* the same for messages that name the command by its canonical path, the
\* first word not quoted
C30_CanonicalUnquoted ==
    (/\ Dispatched /\ last.ev.hasText /\ ~ResolutionFails
     /\ last.ev.text \notin QuotedTexts
     /\ Resolution.match.path_words = Resolution.match.command.path_words)
        => last.stage # "cheap_reject"

C30_CanonicalWitness ==
    /\ Dispatched /\ last.ev.hasText /\ ~ResolutionFails
    /\ last.ev.text \notin QuotedTexts
    /\ Resolution.match.path_words = Resolution.match.command.path_words
    /\ Resolution.prefix # P_none
    /\ last.stage \notin {"precheck_none", "cheap_reject"}

\* the message resolved to a command whose filters do not accept the event
ResolvedToRejectedCommand ==
    /\ Dispatched
    /\ last.stage \notin {"precheck_none", "cheap_reject"}
    /\ ~ResolutionFails
    /\ ~FiltersAccept(Resolution.match.command.func, last.ev)

\* C31 - filter validation precedes argument binding: when the resolved
\* command's filters reject the event, the binder is not called and no
\* param_bind_failed notification is published.
C31_FiltersBeforeBinding ==
    ResolvedToRejectedCommand =>
        /\ ~last.bind_called
        /\ \A i \in DOMAIN last.published :
              last.published[i].type # "ncatbot.param_bind_failed"

\* the weaker half: the rejected command's handler is not invoked
C31_RejectedNotInvoked ==
    ResolvedToRejectedCommand =>
        Resolution.match.command.func \notin CommandCalls

C31_WitnessPublished ==
    /\ ResolvedToRejectedCommand
    /\ last.stage = "bind_failed"
    /\ Len(last.published) = 1

\* what _find_plugin_for_function returns for f on an empty cache
FreshScan(f) == FindPluginForFunction(f, EmptyMap, pluginState)

\* C32 - func-to-plugin cache coherence: a load or unload notification
\* leaves the cache purged, and every cached entry is the plugin a fresh
\* scan of the live plugins returns for the function.
C32_CacheCoherence ==
    /\ last.op \in {"load", "unload"} => func_plugin_map = EmptyMap
    /\ \A f \in DOMAIN func_plugin_map : func_plugin_map[f] = FreshScan(f)

\* the entries are right when they are made: a step that unloads no plugin
\* keeps every cached entry equal to what a fresh scan returns
C32_CoherentUntilUnload ==
    [][(/\ \A f \in DOMAIN func_plugin_map : func_plugin_map[f] = FreshScan(f)
        /\ \A q \in PluginNames :
              pluginState'[q] = "unloaded" => pluginState[q] = "unloaded")
        => (\A f \in DOMAIN func_plugin_map' :
                func_plugin_map'[f] =
                    FindPluginForFunction(f, EmptyMap, pluginState'))
      ]_vars

\* C34 - clear never raises: in every state reachable after on_load,
\* before any index build and after a failed one included, clear returns
\* without raising.
C34_ClearNeverRaises == last.op = "clear" => last.raised = "none"

\* once a build has run, failed or not, clear returns without raising
C34_ClearAfterAnyBuild ==
    (last.op = "clear" /\ lastBuild # "none") => last.raised = "none"

C34_WitnessAfterFailedBuild ==
    /\ last.op = "clear"
    /\ lastBuild \in {"failed_message", "failed_event"}
    /\ last.raised = "none"

\* C38 - response dispatch never blocks: whatever messages arrive,
\* _dispatch_response returns without the event loop waiting inside it, so
\* the loop stays free to resume the sends in flight.
C38_DispatchNeverBlocks == loop.state = "running"

\* the event loop waits in queue.put, holding the lock, for a slot of a
\* queue whose send has already taken its item or given up: no thread will
\* call get on that queue again
C38_BlockedForGood ==
    /\ loop.state = "blocked"
    /\ sends[loop.data.echo].pc \in {"got", "timedout"}
    /\ \E t \in Sends : t # loop.data.echo /\ sends[t].pc \in {"sending", "waiting", "got"}

\* a message whose echo is registered under an empty queue, or whose echo
\* is not registered, is dispatched without waiting
C38_NoWaitOnFreeSlot ==
    [][\A data \in InboundData :
          (/\ OnMessage(data)
           /\ ~(Truthy(data.echo) /\ data.echo \in pending
                   /\ Len(queues[data.echo]) >= QueueMaxSize))
          => loop'.state = "running"
      ]_routerVars

\* save t puts its document in place of the config file in this step, as a
\* task (its replace) or synchronously
SavePublishes(t) ==
    /\ saves[t].pc # "done"
    /\ saves'[t].pc = "done"
    /\ saves'[t].error = "none"

\* the entries save t is entitled to change: its own item, or for save_all
\* the plugin_config section
OwnEntries(save) ==
    IF save.kind = "all" THEN PluginConfigEntries ELSE {save.name}

\* the config file before and after the step differ only in the entries
\* of save t, and those hold what memory holds
FrameOf(t) ==
    /\ disk'[config_path'].kind = "doc"
    /\ \A e \in Entries \ OwnEntries(saves'[t]) :
          disk'[config_path'].doc[e] = disk[config_path].doc[e]
    /\ \A e \in OwnEntries(saves'[t]) :
          disk'[config_path'].doc[e] = saves'[t].data[e]

\* C40 - config save frame: a save of one item, synchronous or as a task,
\* changes in the config file only that item of the plugin (set, or removed
\* when deleted); every other item, every other plugin's section and every
\* other top-level key stay as they were in the file; save_all replaces
\* only the plugin_config section.
C40_SaveFrame ==
    [][\A t \in Saves : SavePublishes(t) => FrameOf(t)]_configVars

\* the frame holds for every synchronous save
C40_SyncSaveFrame ==
    [][\A t \in Saves :
          (SavePublishes(t) /\ saves'[t].kind = "sync") => FrameOf(t)
      ]_configVars

\* the frame holds for every save task, save_all included, that no other
\* save overlaps: the others have not started or have not been scheduled
C40_LoneSaveFrame ==
    [][\A t \in Saves :
          (/\ SavePublishes(t)
           /\ saves'[t].kind \in {"item", "all"}
           /\ \A u \in Saves \ {t} : saves[u].pc \in {"idle", "scheduled"})
          => FrameOf(t)
      ]_configVars

\* a lone save_all has replaced the section and kept the top-level key
C40_WitnessSaveAll ==
    /\ saves[1].kind = "all" /\ saves[1].pc = "done" /\ saves[1].error = "none"
    /\ saves[2].pc = "idle"
    /\ disk[config_path].doc[TopLevelKey] = StartDocument[TopLevelKey]

\* a synchronous save has removed an item that an earlier save had written
C40_WitnessDeleted ==
    /\ saves[1].pc = "done" /\ saves[1].error = "none" /\ ~saves[1].deleted
    /\ saves[2].kind = "sync" /\ saves[2].deleted /\ saves[2].error = "none"
    /\ saves[2].name = saves[1].name
    /\ disk[config_path] = DocContent(StartDocument)

\* the instance is the one self._services holds under its name
Tracked(i) ==
    \E k \in DOMAIN services : services[k] = <<instances[i].name, i>>

\* the instances of a name whose _load has been started and not failed,
\* and that have not been closed
LiveInstances(n) ==
    {i \in Instances : /\ instances[i].name = n
                        /\ instances[i].state \in {"loading", "loaded"}}

\* C35 - single service instance: for every service name at most one
\* instance is loading or loaded at any time, also when two load calls for
\* the name interleave at the await of _load, and every loaded instance is
\* the one self._services holds.
C35_SingleInstance ==
    \A n \in RegisteredNames :
        /\ Cardinality(LiveInstances(n)) <= 1
        /\ \A i \in LiveInstances(n) : instances[i].state = "loaded" => Tracked(i)

\* _load is started for a name only when self._services does not hold the
\* name, and a load that finds the name returns the instance held
C35_LoadOnlyWhenUntracked ==
    [][\A c \in Callers :
          /\ (mgr_calls[c].pc = "ready" /\ mgr_calls'[c].pc = "in_load")
                => ~Has(services, mgr_calls'[c].name)
          /\ (mgr_calls[c].pc = "ready" /\ mgr_calls'[c].result = "existing")
                => /\ Has(services, mgr_calls'[c].name)
                   /\ services[Get(services, mgr_calls'[c].name)][2] = mgr_calls'[c].inst
                   /\ UNCHANGED <<services, instances, created>>
      ]_managerVars

\* two instances of one name have both been loaded; the one that was
\* entered first is no longer in self._services
C35_WitnessUntracked ==
    \E i, j \in Instances :
        /\ i # j
        /\ instances[i].name = instances[j].name
        /\ instances[i].state = "loaded" /\ instances[j].state = "loaded"
        /\ Tracked(j) /\ ~Tracked(i)

\* C36 - close_all unloads everything: when close_all has returned or
\* raised, with no other call of the manager pending and nothing loaded
\* since it started, self._services is empty and every service it found
\* loaded has had its _close called.
C36_CloseAllUnloadsEverything ==
    \A c \in Callers :
        (/\ mgr_calls[c].op = "close_all" /\ mgr_calls[c].pc = "done"
         /\ \A d \in Callers \ {c} : mgr_calls[d] = NoCall
         /\ \A j \in DOMAIN services :
               \E k \in DOMAIN mgr_calls[c].found :
                   services[j] = mgr_calls[c].found[k])
        => /\ services = <<>>
           /\ \A k \in DOMAIN mgr_calls[c].found :
                 instances[mgr_calls[c].found[k][2]].closes >= 1

\* close_all alone, from two loaded services: the _close of the first
\* raises, both services stay in self._services and the second was never
\* closed
C36_WitnessRaised ==
    \E c \in Callers :
        /\ mgr_calls[c].op = "close_all" /\ mgr_calls[c].pc = "done"
        /\ mgr_calls[c].result = "raised"
        /\ \A d \in Callers \ {c} : mgr_calls[d] = NoCall
        /\ Len(services) = 2 /\ services = mgr_calls[c].found
        /\ instances[services[2][2]].closes = 0

\* when close_all returns, none of the instances it found is still in
\* self._services
C36_ReturnedDropsFound ==
    \A c \in Callers :
        (/\ mgr_calls[c].op = "close_all" /\ mgr_calls[c].pc = "done"
         /\ mgr_calls[c].result = "returned")
        => \A k \in DOMAIN mgr_calls[c].found :
              \A j \in DOMAIN services : services[j] # mgr_calls[c].found[k]

\* the load of caller c ends in this step with an error
LoadFails(c) ==
    /\ mgr_calls[c].op \in {"load", "load_all"}
    /\ mgr_calls[c].pc # "done"
    /\ mgr_calls'[c].pc = "done"
    /\ mgr_calls'[c].result \in {"KeyError", "raised"}

\* C37 - failed load leaves the manager unchanged: load of an unregistered
\* name raises KeyError, a load whose _load raises hands the error on; in
\* both cases self._services is as it was, the name is not entered by
\* that load, and every load that gets as far as _load does so on an
\* instance created for it.
C37_FailedLoadLeavesManagerUnchanged ==
    [][\A c \in Callers :
          /\ LoadFails(c) =>
                /\ services' = services
                /\ Has(services', mgr_calls'[c].name) = Has(services, mgr_calls'[c].name)
                /\ mgr_calls'[c].result = "KeyError" =>
                      /\ mgr_calls'[c].name \notin RegisteredNames
                      /\ ~Has(services', mgr_calls'[c].name)
                /\ mgr_calls'[c].result = "raised" =>
                      /\ instances'[mgr_calls'[c].inst].state = "failed"
                      /\ \A k \in DOMAIN services' :
                            services'[k][2] # mgr_calls'[c].inst
          /\ (/\ mgr_calls[c].op = "load" /\ mgr_calls[c].pc = "ready"
              /\ mgr_calls'[c] # mgr_calls[c]
              /\ Head(mgr_calls[c].todo) \notin RegisteredNames)
                => mgr_calls'[c].result = "KeyError"
          /\ (mgr_calls[c].pc = "ready" /\ mgr_calls'[c].pc = "in_load")
                => /\ instances[mgr_calls'[c].inst] = NotCreated
                   /\ instances'[mgr_calls'[c].inst].state = "loading"
      ]_managerVars

\* a load failed in _load with nothing loaded under the name, and a later
\* load of the same name has loaded a new instance
C37_Witness ==
    \E i, j \in Instances :
        /\ i < j
        /\ instances[i].name = instances[j].name
        /\ instances[i].state = "failed"
        /\ instances[j].state = "loaded"
        /\ Tracked(j)
        /\ \E c \in Callers : mgr_calls[c].result = "loaded" /\ mgr_calls[c].inst = j

\* a load of the unregistered name has raised KeyError
C37_WitnessKeyError ==
    \E c \in Callers :
        /\ mgr_calls[c].result = "KeyError"
        /\ mgr_calls[c].op = "load"
        /\ mgr_calls[c].name = UnregisteredName

\* ------------------------------------------------- WebSocketService.listen

\* listen is inside its loop on connection c, the service is running and c
\* has been lost
LostWhileRunning(c) ==
    /\ running
    /\ listen.pc \in {"iter", "callback"}
    /\ listen.conn = c
    /\ conns[c] \in {"closed_ok", "closed_err"}

\* C33 - listen keeps receiving until the connection is lost for good or
\* the service is closed: whenever the connection listen iterates is lost
\* while the service is running, listen comes to attempt a reconnect for it
\* (unless the service is closed or listen has ended before it gets there).
C33_DropLeadsToReconnect ==
    \A c \in Conns :
        LostWhileRunning(c) ~> (c \in attempted \/ ~running \/ listen.pc = "done")

\* a connection lost with an error while the service is running leads to a
\* reconnect attempt
C33_ErrorDropLeadsToReconnect ==
    \A c \in Conns :
        (LostWhileRunning(c) /\ conns[c] = "closed_err")
            ~> (c \in attempted \/ ~running \/ listen.pc = "done")

\* the reconnect attempt either fails and ends listen with
\* NcatBotConnectionError, or succeeds and listen iterates the new, open
\* client; a cancelled listen task ends instead
C33_ReconnectOutcome ==
    [][/\ (listen.pc = "reconnect" /\ listen' # listen)
            => \/ /\ listen'.pc = "iter"
                  /\ running
                  /\ client' # client /\ listen'.conn = client'
                  /\ conns[client'] = "none" /\ conns'[client'] = "open"
               \/ /\ listen'.pc = "done" /\ listen'.result = "NcatBotConnectionError"
                  /\ client' = client
               \/ /\ listen'.pc = "done" /\ listen'.result = "cancelled"
                  /\ cancel_requested /\ client' = client
               \/ /\ listen'.pc = "done" /\ listen'.result = "returned"
                  /\ ~running
       /\ (/\ listen.pc = "iter" /\ listen'.pc = "done"
           /\ listen'.result = "NcatBotConnectionError")
            => /\ running /\ conns[listen.conn] = "closed_err"
               /\ listen.conn \in attempted'
      ]_socketVars

\* once on_close has marked the service not running, no message taken from
\* the connection reaches the event callback
C33_NoCallbackAfterClose ==
    \A k \in DOMAIN ws_log : ws_log[k].closed => ~ws_log[k].delivered

\* once on_close has been called, a listen that was started ends
C33_ClosedListenTerminates ==
    (closer.pc # "idle" /\ listen.pc # "none") ~> (listen.pc = "done")

\* with a listen task, no client is connected after on_close was called
C33_TaskNoReconnectAfterClose ==
    [][(closer.pc # "idle" /\ listen_task) => client' \in {client, NoClient}
      ]_socketVars

\* the first connection was lost with an error, the reconnect succeeded and
\* an event of the second connection has reached the callback
C33_WitnessContinues ==
    /\ 1 \in attempted
    /\ \E k \in DOMAIN ws_log : ws_log[k].conn = 2 /\ ws_log[k].delivered

\* the connection was closed normally, the service is running, and listen
\* has gone round its loop on the closed client without a reconnect
C33_WitnessRespun ==
    /\ running /\ listen.pc = "iter" /\ listen.respun
    /\ conns[listen.conn] = "closed_ok" /\ attempted = {}

\* a message arrived after on_close was called and was not delivered
C33_WitnessDiscarded ==
    \E k \in DOMAIN ws_log :
        ws_log[k].closed /\ ws_log[k].kind = "event" /\ ws_callback

\* listen was awaited directly; on_close has returned and afterwards the
\* reconnect that was under way has connected a new client
C33_WitnessLateReconnect ==
    /\ closer.pc = "done" /\ closer.result = "returned"
    /\ client # NoClient /\ conns[client] = "open"

\* ------------------------------------------------- handle_legacy_event

\* the handlers of list fs whose filters accept the event, in list order
AcceptedOf(fs, ev) ==
    SelectSeq(fs, LAMBDA f : \A name \in FiltersOf(f) : Predicate(name, ev))

\* the list the post_type of the last legacy event selects
DueList ==
    CASE legacy_last.ev.post_type = "notice" -> legacy_last.notice
      [] legacy_last.ev.post_type = "request" -> legacy_last.request
      [] OTHER -> <<>>

\* C39 - legacy event dispatch: for a notice event every notice handler,
\* for a request event every request handler, is run through
\* _execute_function once in list order and no handler of the other list
\* is; the handlers called are those whose filters accept, each once and in
\* order, also after a handler that raised or was rejected; nothing is
\* raised and the call returns True.
C39_LegacyDispatch ==
    legacy_last.op = "legacy" =>
        /\ legacy_last.tried = {DueList[i] : i \in DOMAIN DueList}
        /\ [i \in DOMAIN legacy_last.calls |-> legacy_last.calls[i].func]
              = AcceptedOf(DueList, legacy_last.ev)
        /\ \A i \in DOMAIN legacy_last.calls :
              legacy_last.calls[i].args = <<>>
        /\ legacy_last.logged
              = SelectSeq(AcceptedOf(DueList, legacy_last.ev),
                          LAMBDA f : f \in legacy_last.ev.raisers)
        /\ legacy_last.raised = "none"
        /\ legacy_last.returned = "True"

\* a notice event: the first notice handler raised, the second was called
\* after it, and the request list holds a handler that was not called
C39_Witness ==
    /\ legacy_last.op = "legacy"
    /\ legacy_last.ev.post_type = "notice"
    /\ Len(legacy_last.notice) = 2
    /\ Len(legacy_last.calls) = 2
    /\ legacy_last.notice[1] \in legacy_last.ev.raisers
    /\ legacy_last.notice[2] \notin legacy_last.ev.raisers
    /\ \E i \in DOMAIN legacy_last.request :
          /\ legacy_last.request[i] \notin legacy_last.tried

\* a request event: the first request handler was rejected by its filters
\* and the second was called
C39_WitnessRejected ==
    /\ legacy_last.op = "legacy"
    /\ legacy_last.ev.post_type = "request"
    /\ Len(legacy_last.request) = 2
    /\ Len(legacy_last.calls) = 1
    /\ legacy_last.calls[1].func = legacy_last.request[2]
    /\ legacy_last.notice # <<>>

====
